---- MODULE Spec2Model ----
(***************************************************************************)
(* Model of the FHIR search executor (search/mongo_search.go).             *)
(*                                                                         *)
(* A MongoSearcher runs Search calls against one resource collection and   *)
(* the countcache collection.  Every driver operation of a call (FindOne,  *)
(* CountDocuments, Aggregate, Find, cursor.Next, InsertOne) is one atomic  *)
(* step, so that concurrent calls interleave between driver operations.    *)
(* The local computation between two driver operations belongs to the step *)
(* of the driver operation that precedes it.                               *)
(*                                                                         *)
(* The calls of one behaviour carry the same request (calls for different  *)
(* fingerprints meet only in countcache, which is keyed by fingerprint);   *)
(* they are kept as a bag of local states, since nothing tells two calls   *)
(* apart but their state.  The stored documents do not change.             *)
(***************************************************************************)
EXTENDS Integers, Naturals, Sequences, FiniteSets, Bags, TLC

\* ---------------------------------------------------------------- bounds
NDocs == 2          \* documents stored in the resource collection
MaxCalls == 2       \* Search calls (possibly concurrent) in one behaviour
MaxSearchers == 2   \* MongoSearchers constructed in one behaviour
MaxReferencePaths == 2  \* reference paths of a chained reference parameter
MaxSubParams == 2   \* parameters of a chained sub-query (items of a chained Or)
MaxParams == 3      \* parameters whose predicates are merged into one query
MaxPaths == 2       \* paths of one search parameter
MaxStored == 2      \* resources stored in the collection that find and aggregate read
MaxSorts == 2       \* sort options of one search
MaxOffset == 1      \* the largest _offset
MaxCount == 2       \* the largest _count
MaxPathTokens == 3   \* markers, names and separators of one search path
MaxCodings == 2   \* codings of one stored CodeableConcept
MaxCompilations == 2   \* compilations of one chained reference
MaxSortKeys == 3   \* sort keys of one _sort list
MaxIncludePaths == 2   \* paths of an included parameter
MaxTargets == 2   \* target types of an included parameter

Docs == 1..NDocs

Nil == "nil"

\* ------------------------------------------------ documents and predicates
\* A compiled single-parameter predicate is modelled by the set of stored
\* documents it matches.
SelAll == Docs
SelOdd == {d \in Docs : d % 2 = 1}
SelNone == {}

StdParam(sel) == [kind |-> "standard", nPaths |-> 0, sel |-> sel]
ChainedParam(n, sel) == [kind |-> "chained", nPaths |-> n, sel |-> sel]
ReverseChainedParam(n, sel) == [kind |-> "reverse", nPaths |-> n, sel |-> sel]
\* A CompositeParam: no builder compiles it.
CompositeParam == [kind |-> "composite", nPaths |-> 0, sel |-> SelNone]

QueryOptions(summary, count, offset, include) ==
    [Summary |-> summary, Count |-> count, Offset |-> offset, Include |-> include]

\* The requests: a Query is {Resource, Query}; its parameters and options are
\* what the parser derives from the raw query string.
Queries ==
    { [Resource |-> "Patient", Query |-> "gender=x",
       params |-> <<StdParam(SelOdd)>>,
       options |-> QueryOptions("", 100, 0, 0)],
      [Resource |-> "Patient", Query |-> "_count=1&_offset=1",
       params |-> << >>,
       options |-> QueryOptions("", 1, 1, 0)],
      [Resource |-> "Patient", Query |-> "gender=x&_summary=count",
       params |-> <<StdParam(SelOdd)>>,
       options |-> QueryOptions("count", 100, 0, 0)],
      [Resource |-> "Patient", Query |-> "_include=Patient:org",
       params |-> << >>,
       options |-> QueryOptions("", 100, 0, 1)],
      [Resource |-> "Patient", Query |-> "_include=Patient:org&_summary=count",
       params |-> << >>,
       options |-> QueryOptions("count", 100, 0, 1)],
      [Resource |-> "Patient", Query |-> "org.name=a",
       params |-> <<ChainedParam(1, SelOdd)>>,
       options |-> QueryOptions("", 100, 0, 0)],
      [Resource |-> "Patient", Query |-> "org.name=none",
       params |-> <<ChainedParam(1, SelNone)>>,
       options |-> QueryOptions("", 100, 0, 0)],
      [Resource |-> "Patient", Query |-> "org.name=a&_summary=count",
       params |-> <<ChainedParam(1, SelOdd)>>,
       options |-> QueryOptions("count", 100, 0, 0)],
      [Resource |-> "Patient", Query |-> "gender=x&composite=y",
       params |-> <<StdParam(SelOdd), CompositeParam>>,
       options |-> QueryOptions("", 100, 0, 0)] }

NoQuery == [Resource |-> "", Query |-> "", params |-> << >>,
            options |-> QueryOptions("", 0, 0, 0)]


\* ------------------------------------------------------- driver semantics
\* Stored documents and aggregation outputs share one shape: a stored document
\* is [id |-> d, total |-> 0], the output of a $group-sum is [id |-> 0, total |-> k].
StoredDoc(d) == [id |-> d, total |-> 0]

\* The collection in natural (_id) order.
Collection == [i \in 1..NDocs |-> StoredDoc(i)]

\* A query document (bson.M) is the conjunction of its per-parameter predicates.
Matches(doc, queryObject) == \A sel \in queryObject : doc.id \in sel

Filter(docs, queryObject) == SelectSeq(docs, LAMBDA d : Matches(d, queryObject))

Skip(docs, n) == IF n >= Len(docs) THEN << >> ELSE SubSeq(docs, n + 1, Len(docs))
Limit(docs, n) == IF n >= Len(docs) THEN docs ELSE SubSeq(docs, 1, n)

MatchStage(queryObject) == [op |-> "$match", q |-> queryObject, n |-> 0]
LookupStage(i) == [op |-> "$lookup", q |-> {}, n |-> i]
GroupSumStage == [op |-> "$group", q |-> {}, n |-> 0]
SkipStage(n) == [op |-> "$skip", q |-> {}, n |-> n]
LimitStage(n) == [op |-> "$limit", q |-> {}, n |-> n]

RunStage(stage, docs) ==
    CASE stage.op = "$match" -> Filter(docs, stage.q)
      [] stage.op = "$lookup" -> docs
      [] stage.op = "$skip" -> Skip(docs, stage.n)
      [] stage.op = "$limit" -> Limit(docs, stage.n)
      [] stage.op = "$group" ->
            IF docs = << >> THEN << >> ELSE <<[id |-> 0, total |-> Len(docs)]>>

RECURSIVE RunPipeline(_, _)
RunPipeline(pipeline, docs) ==
    IF pipeline = << >> THEN docs
    ELSE RunPipeline(Tail(pipeline), RunStage(Head(pipeline), docs))

\* c.CountDocuments(ctx, filter)
CountDocuments(queryObject) == Len(Filter(Collection, queryObject))

\* uint32(intTotal): a count is never negative, and the model checker's integers
\* stop below 2^31, where the conversion changes nothing.
uint32(x) == x


\* ------------------------------------------------------------ compilation
\* The error a builder signals (by panic) for one parameter, Nil when it builds
\* a predicate: createCompositeQueryObject always signals UnsupportedSearch.
createParamObjectPanic(p) ==
    IF p.kind = "composite" THEN "UnsupportedSearch" ELSE Nil

\* createParamObjects walks the parameters in order: the first panic ends it.
RECURSIVE createParamObjectsPanic(_)
createParamObjectsPanic(params) ==
    IF params = << >> THEN Nil
    ELSE IF createParamObjectPanic(Head(params)) # Nil
    THEN createParamObjectPanic(Head(params))
    ELSE createParamObjectsPanic(Tail(params))

\* The panic that unwinds out of convertToBSON(query), Nil when it returns.
convertToBSONPanic(query) == createParamObjectsPanic(query.params)

\* createQueryObjectFromParams: one predicate per parameter, merged into one
\* conjunctive document.
createQueryObjectFromParams(params) == {params[i].sel : i \in 1..Len(params)}

usesChainedSearch(p) == p.kind = "chained"
usesReverseChainedSearch(p) == p.kind = "reverse"

\* One $lookup per reference path, then one $match on the joined documents.
createChainedSearchPipelineStages(p) ==
    [i \in 1..(p.nPaths + 1) |->
        IF i <= p.nPaths THEN LookupStage(i - 1) ELSE MatchStage({p.sel})]

createReverseChainedSearchPipelineStages(p) ==
    [i \in 1..(p.nPaths + 1) |->
        IF i <= p.nPaths THEN LookupStage(i - 1) ELSE MatchStage({p.sel})]

\* for _, p := range params { pipeline = append(pipeline, stages(p)...) }
RECURSIVE AppendStages(_)
AppendStages(params) ==
    IF params = << >> THEN << >>
    ELSE (IF usesChainedSearch(Head(params))
          THEN createChainedSearchPipelineStages(Head(params))
          ELSE createReverseChainedSearchPipelineStages(Head(params)))
         \o AppendStages(Tail(params))

createPipelineObject(query) ==
    LET standardSearchParams ==
            SelectSeq(query.params,
                      LAMBDA p : ~usesChainedSearch(p) /\ ~usesReverseChainedSearch(p))
        chainedSearchParams == SelectSeq(query.params, usesChainedSearch)
        reverseChainedSearchParams ==
            SelectSeq(query.params,
                      LAMBDA p : ~usesChainedSearch(p) /\ usesReverseChainedSearch(p))
    IN <<MatchStage(createQueryObjectFromParams(standardSearchParams))>>
       \o AppendStages(chainedSearchParams)
       \o AppendStages(reverseChainedSearchParams)

createQueryObject(query) == createQueryObjectFromParams(query.params)

\* Query.UsesPipeline(): a chained or reverse-chained parameter, or includes.
UsesPipeline(query) ==
    \/ \E i \in 1..Len(query.params) :
          usesChainedSearch(query.params[i]) \/ usesReverseChainedSearch(query.params[i])
    \/ query.options.Include > 0

\* A field of BSONQuery is nil (None) or holds a value (Some(v)).
None == << >>
Some(v) == <<v>>
Get(field) == field[1]

\* NewBSONQuery(resource)
NewBSONQuery(resource) == [Resource |-> resource, Query |-> None, Pipeline |-> None]

convertToBSON(query) ==
    IF UsesPipeline(query)
    THEN [NewBSONQuery(query.Resource) EXCEPT
             !.Pipeline = Some(createPipelineObject(query))]
    ELSE [NewBSONQuery(query.Resource) EXCEPT
             !.Query = Some(createQueryObject(query))]

\* Mutant: an empty query document is taken for a missing one.
usesPipelineWhenEmpty(b) == b.Query = None \/ b.Query = Some({})

usesPipeline(b) == b.Query = None

\* $skip, $limit and one $lookup per include, appended to the search pipeline.
convertOptionsToPipelineStages(o) ==
    (IF o.Offset > 0 THEN <<SkipStage(o.Offset)>> ELSE << >>)
    \o <<LimitStage(o.Count)>>
    \o [i \in 1..o.Include |-> LookupStage(i - 1)]

searchPipeline(bsonQuery, options) ==
    Get(bsonQuery.Pipeline) \o convertOptionsToPipelineStages(options)

\* Mutant: the $group stage overwrites the last stage of the query pipeline.
countPipelineOverwritesLast(pipeline) ==
    [i \in 1..Len(pipeline) |->
        IF i < Len(pipeline) THEN pipeline[i] ELSE GroupSumStage]

\* The count pipeline: a copy of the query pipeline plus one $group-sum stage.
countPipeline(pipeline) ==
    [i \in 1..(Len(pipeline) + 1) |->
        IF i <= Len(pipeline) THEN pipeline[i] ELSE GroupSumStage]

\* c.Find(ctx, query, options): skip when Offset > 0, limit Count (0: no limit).
Find(queryObject, o) ==
    LET matched == Filter(Collection, queryObject)
        skipped == IF o.Offset > 0 THEN Skip(matched, o.Offset) ELSE matched
    IN IF o.Count = 0 THEN skipped ELSE Limit(skipped, o.Count)


\* ------------------------------------------------------- Search: decisions
\* Mutant: the cache is consulted whenever counts are enabled.
CacheEnabledCountsOnly(mm) == mm.countTotalResults

\* if m.readonly && m.countTotalResults
CacheEnabled(mm) == mm.readonly /\ mm.countTotalResults

\* fmt.Sprintf("%x", md5.Sum([]byte(query.Resource + "?" + query.Query)))
QueryHash(query) == <<query.Resource, "?", query.Query>>

\* countcache.FindOne({_id: id}): the stored entries with that _id.
FindOne(coll, id) == SelectSeq(coll, LAMBDA e : e.Id = id)

\* Mutant: no unique key, every insert is stored.
InsertOneNoUniqueId(coll, doc) == Append(coll, doc)

\* countcache.InsertOne(doc): _id is unique, a duplicate key is rejected.
InsertOne(coll, doc) ==
    IF \E i \in 1..Len(coll) : coll[i].Id = doc.Id THEN coll ELSE Append(coll, doc)

\* Mutant: the entry records total, which is still zero on a miss.
CountCacheOfTotal(queryHash, total, computedTotal) == [Id |-> queryHash, Count |-> total]

\* &CountCache{Id: queryHash, Count: computedTotal}
CountCache(queryHash, total, computedTotal) == [Id |-> queryHash, Count |-> computedTotal]

\* if m.readonly && !doCount && total == 0 { return resources, 0, nil }
KnownEmpty(mm, doCount, total) == mm.readonly /\ ~doCount /\ total = 0

\* if !m.countTotalResults { doCount = false }
CountingAllowed(mm, doCount) == IF ~mm.countTotalResults THEN FALSE ELSE doCount

\* Mutant: the count is issued whatever doCount says.
NeedsCountAlways(doCount, options) == TRUE

\* if doCount || options.Summary == "count"  (find and aggregate)
NeedsCount(doCount, options) == doCount \/ options.Summary = "count"

\* if m.readonly && m.countTotalResults && doCount
ShouldInsert(mm, doCount) == mm.readonly /\ mm.countTotalResults /\ doCount

\* Mutant: the computed total replaces the cached one unconditionally.
FinalTotalComputed(doCount, total, computedTotal) == computedTotal

\* if doCount { total = computedTotal }
FinalTotal(doCount, total, computedTotal) == IF doCount THEN computedTotal ELSE total

Ret(resources, total, err) == [resources |-> resources, total |-> total, err |-> err]
NoRet == Ret(<< >>, 0, Nil)

\* Mutant: the error return hands back what was collected so far.
SearchErrorKeepsPartial(resources, total, err) == Ret(resources, total, err)

\* return nil, 0, errors.Wrap(err, ...)
SearchError(resources, total, err) == Ret(<< >>, 0, err)

\* ------------------------------------------------------------ call state
\* A cursor is "open" from the Find/Aggregate that returned it.  Search never
\* calls Close; the driver releases a cursor only when a Next finds it
\* exhausted without error ("closed").
NoCursor == [state |-> "none", docs |-> << >>, pos |-> 0]
OpenCursor(docs) == [state |-> "open", docs |-> docs, pos |-> 0]

\* The locals of one Search call.  ops lists the driver operations issued;
\* failed: a count, find/aggregate or cursor operation reported an error;
\* insertOutcome/inserted: what InsertOne reported and whether it stored the
\* entry; after: how many calls had returned when this one began; panic: the
\* value of the panic that unwound out of Search (pc = "panic"), if any;
\* interrupted: the driver reported the operation interrupted (code 11601);
\* usesPipeline: the local of that name, which picks aggregate or find.
IdleCall ==
    [pc |-> "idle", query |-> NoQuery, queryHash |-> << >>,
     doCount |-> TRUE, total |-> 0, computedTotal |-> 0,
     cacheHit |-> FALSE, cursor |-> NoCursor, countCursor |-> NoCursor,
     resources |-> << >>, ret |-> NoRet, ops |-> << >>,
     cancelled |-> FALSE, failed |-> FALSE,
     insertOutcome |-> "none", inserted |-> FALSE, after |-> 0,
     panic |-> Nil, interrupted |-> FALSE, usesPipeline |-> FALSE]

Log(call, op) == [call EXCEPT !.ops = Append(@, op)]

Return(call, ret) == [call EXCEPT !.pc = "done", !.ret = ret]

\* Mutant: Search recovers the panic and hands it back as its error.
UnwindRecovered(call, e) == Return(call, Ret(<< >>, 0, e))

\* A panic raised below Search: Search defers no recover, so the panic unwinds
\* out of it and no result is returned.
Unwind(call, e) == [call EXCEPT !.pc = "panic", !.panic = e]

\* Lines 166-210: the early return, the counting switch, compilation and the
\* dispatch to find or aggregate up to their first driver operation.
AfterLookup(call, mm) ==
    IF KnownEmpty(mm, call.doCount, call.total)
    THEN Return(call, Ret(call.resources, 0, Nil))
    ELSE LET doCount == CountingAllowed(mm, call.doCount)
         IN IF convertToBSONPanic(call.query) # Nil
            THEN Unwind([call EXCEPT !.doCount = doCount],
                        convertToBSONPanic(call.query))
            ELSE [call EXCEPT !.doCount = doCount,
                              !.usesPipeline = usesPipeline(convertToBSON(call.query)),
                              !.pc = IF NeedsCount(doCount, call.query.options)
                                     THEN "count" ELSE "query"]

\* Mutant: _summary=count is not looked at, the search goes on to the query.
AfterCountThenQuery(call, total) ==
    [call EXCEPT !.computedTotal = total, !.pc = "query"]

\* After the count inside find/aggregate: with _summary=count they return
\* (nil, total, nil) and Search returns (resources, computedTotal, nil).
AfterCount(call, total) ==
    LET counted == [call EXCEPT !.computedTotal = total]
    IN IF call.query.options.Summary = "count"
       THEN Return(counted, Ret(call.resources, total, Nil))
       ELSE [counted EXCEPT !.pc = "query"]

\* Lines 251-267 after the cursor has been read.
AfterCollect(call, mm) ==
    IF ShouldInsert(mm, call.doCount)
    THEN [call EXCEPT !.pc = "insert"]
    ELSE Return(call, Ret(call.resources,
                          FinalTotal(call.doCount, call.total, call.computedTotal), Nil))

\* Mutant: the error of find/aggregate is not checked, Search carries on with
\* a nil cursor.
OnQueryErrorIgnored(call, mm) == AfterCollect(call, mm)

\* if err != nil { return nil, 0, errors.Wrap(err, "Search error") }
OnQueryError(call, mm) ==
    Return(call, SearchError(call.resources, call.total, "Search error"))

\* Mutant: cursor.Err() is not checked after the loop.
OnCursorErrorIgnored(call, mm) == AfterCollect(call, mm)

\* if err := cursor.Err(); err != nil { return nil, 0, ... }
OnCursorError(call, mm) ==
    Return(call, SearchError(call.resources, call.total, "Search cursor error"))


\* if err != nil { return nil, 0, errors.Wrap(err, "Search result decoding error") }
OnDecodeError(call, err) ==
    Return(call, SearchError(call.resources, call.total, err))

\* The number of stored documents the query selects.
ExpectedTotal(query) ==
    Cardinality({d \in Docs : \A i \in 1..Len(query.params) : d \in query.params[i].sel})

\* ------------------------------------------------------------------ state
VARIABLES
    m,           \* the MongoSearcher configuration
    request,     \* the Query the Search calls are made with
    countcache,  \* the countcache collection, in insertion order
    preloaded,   \* the countcache collection as the server found it
    calls        \* the Search calls made so far: a bag of their local states

\* The searchers' lifetime (construction and Close).
VARIABLES
    searchers,   \* the MongoSearchers constructed so far, in order
    clients,     \* the driver's clients: TRUE while connected
    sessions     \* the driver's sessions: TRUE once ended

\* The path rewriting of a chained search (prependLookupKeyToSearchPaths).
VARIABLES
    arrays,      \* the backing arrays of the Paths slices, by address
    matchParams, \* the SearchParams being rewritten
    chain,       \* the chained reference: isOr, reverse, numReferencePaths
    ip           \* the parameter (or Or item) the loop is at

\* The merging of the parameters' predicates (createQueryObjectFromParams).
VARIABLES
    paramObjects, \* the predicates createParamObjects returned, in order
    result,       \* the query object being assembled
    merged        \* how many predicates have been merged into it

\* The disjunction over a parameter's paths (orPaths).
VARIABLES
    singles,      \* objFunc: the single-path predicate of each path, in order
    results,      \* the branches collected so far
    oi,           \* the path the loop is at
    orReturn      \* what orPaths returned, once it has

\* The compilation of a reference parameter (createReferenceQueryObject).
VARIABLES
    referenceSearcher, \* the MongoSearcher's enableCISearches
    referenceParam, \* the ReferenceParam being compiled
    referenceCall, \* who compiles it: convertToBSON or createParamObjects
    referenceBuilt  \* what the compilation gave, once it has

\* The options of a search, as driver options and as pipeline stages (find, aggregate).
VARIABLES
    collection, \* the resource collection, in natural order
    assembled, \* the query document of the search
    queryOptions, \* the QueryOptions of the search
    findResult, \* what find gave for them, once it ran
    aggregateResult  \* what aggregate gave for them, once it ran

\* The normalisation of a search path (convertSearchPathToMongoField).
VARIABLES
    searchPath, \* the search path, as the dictionary gives it
    mongoField, \* its Mongo field, once converted
    mongoFieldAgain  \* the Mongo field converted once more

\* The compilation of one parameter (createParamObjects).
VARIABLES
    paramSearcher, \* the MongoSearcher's enableCISearches and tokenParametersCaseSensitive
    searchParam, \* the SearchParam being compiled
    paramObject  \* its predicate or the panic, once compiled

\* The stages of a chained search, compiled time and again (createChainedSearchPipelineStages).
VARIABLES
    chainedRef, \* the chained or reverse-chained ReferenceParam, its sub-query as parsed
    chainedSubParams, \* the SearchParam objects of its sub-query
    chainedStages  \* the stages each compilation emitted, or its panic

\* The _sort list of one search.
VARIABLES
    sortKeys, \* the Sort list of the options before removeParallelArraySorts
    keptKeys  \* the Sort list it leaves, once it has run

\* The _include and _revinclude of one search.
VARIABLES
    includeOptions, \* the Include and RevInclude lists of the options
    includeStages  \* the stages convertOptionsToPipelineStages emits for them

\* The resource handlers of the server: one request to one of them.
VARIABLES
    database, \* the stored documents of each collection, by _id
    handlerRequest, \* the id of the route and the body of the request
    response, \* what the handler wrote to the ResponseWriter, in order
    dbCalls, \* the Update and Remove calls the handler made on the collection
    requestContext  \* what the handler set in the request context

searchVars == <<m, request, countcache, preloaded, calls>>
lifetimeVars == <<searchers, clients, sessions>>
prependVars == <<arrays, matchParams, chain, ip>>
mergeVars == <<paramObjects, result, merged>>
orVars == <<singles, results, oi, orReturn>>
referenceVars == <<referenceSearcher, referenceParam, referenceCall, referenceBuilt>>
optionsVars == <<collection, assembled, queryOptions, findResult, aggregateResult>>
pathsVars == <<searchPath, mongoField, mongoFieldAgain>>
paramsVars == <<paramSearcher, searchParam, paramObject>>
chainedVars == <<chainedRef, chainedSubParams, chainedStages>>
sortsVars == <<sortKeys, keptKeys>>
includesVars == <<includeOptions, includeStages>>
handlersVars == <<database, handlerRequest, response, dbCalls, requestContext>>

vars == <<searchVars, lifetimeVars, prependVars, mergeVars, orVars, referenceVars, optionsVars, pathsVars, paramsVars, chainedVars, sortsVars, includesVars, handlersVars>>

\* The application's own client and session (the injected database handle
\* belongs to them) are 1; no searcher has been constructed.
LifetimeIdle ==
    /\ searchers = << >>
    /\ clients = <<TRUE>>
    /\ sessions = <<FALSE>>

\* No chained search is being compiled.
PrependIdle ==
    /\ arrays = << >>
    /\ matchParams = << >>
    /\ chain = [isOr |-> FALSE, reverse |-> FALSE, numReferencePaths |-> 0]
    /\ ip = 0

\* No Search call: the state of the calls where none is made.
SearchIdle ==
    /\ m = [readonly |-> FALSE, countTotalResults |-> FALSE]
    /\ request = NoQuery
    /\ countcache = << >>
    /\ preloaded = << >>
    /\ calls = EmptyBag

\* No query object is being assembled.
MergeIdle ==
    /\ paramObjects = << >>
    /\ result = << >>
    /\ merged = 0

\* No disjunction is being built.
OrIdle ==
    /\ singles = << >>
    /\ results = << >>
    /\ oi = 0
    /\ orReturn = << >>

\* No reference parameter is being compiled.
ReferenceIdle ==
    /\ referenceSearcher = FALSE
    /\ referenceParam = << >>
    /\ referenceCall = ""
    /\ referenceBuilt = << >>

\* No search is run with options.
OptionsIdle ==
    /\ collection = << >>
    /\ assembled = << >>
    /\ queryOptions = << >>
    /\ findResult = << >>
    /\ aggregateResult = << >>

\* No path is being converted.
PathsIdle ==
    /\ searchPath = << >>
    /\ mongoField = None
    /\ mongoFieldAgain = None

\* No parameter is being compiled.
ParamsIdle ==
    /\ paramSearcher = [enableCISearches |-> FALSE, tokenParametersCaseSensitive |-> FALSE]
    /\ searchParam = << >>
    /\ paramObject = None

\* No chained search is being compiled into stages.
ChainedIdle ==
    /\ chainedRef = << >>
    /\ chainedSubParams = << >>
    /\ chainedStages = << >>

\* No sort list is being cleaned.
SortsIdle ==
    /\ sortKeys = << >>
    /\ keptKeys = << >>

\* No include is being converted.
IncludesIdle ==
    /\ includeOptions = << >>
    /\ includeStages = << >>

\* No request is being handled.
HandlersIdle ==
    /\ database = << >>
    /\ handlerRequest = << >>
    /\ response = << >>
    /\ dbCalls = << >>
    /\ requestContext = << >>

\* The state outside the Search calls, which Search leaves alone; and the same
\* for the other operations.
outsideSearch == <<lifetimeVars, prependVars, mergeVars, orVars, referenceVars, optionsVars, pathsVars, paramsVars, chainedVars, sortsVars, includesVars, handlersVars>>
OutsideSearchIdle == LifetimeIdle /\ PrependIdle /\ MergeIdle /\ OrIdle /\ ReferenceIdle /\ OptionsIdle /\ PathsIdle /\ ParamsIdle /\ ChainedIdle /\ SortsIdle /\ IncludesIdle /\ HandlersIdle
outsideLifetime == <<searchVars, prependVars, mergeVars, orVars, referenceVars, optionsVars, pathsVars, paramsVars, chainedVars, sortsVars, includesVars, handlersVars>>
OutsideLifetimeIdle == SearchIdle /\ PrependIdle /\ MergeIdle /\ OrIdle /\ ReferenceIdle /\ OptionsIdle /\ PathsIdle /\ ParamsIdle /\ ChainedIdle /\ SortsIdle /\ IncludesIdle /\ HandlersIdle
outsidePrepend == <<searchVars, lifetimeVars, mergeVars, orVars, referenceVars, optionsVars, pathsVars, paramsVars, chainedVars, sortsVars, includesVars, handlersVars>>
OutsidePrependIdle == SearchIdle /\ LifetimeIdle /\ MergeIdle /\ OrIdle /\ ReferenceIdle /\ OptionsIdle /\ PathsIdle /\ ParamsIdle /\ ChainedIdle /\ SortsIdle /\ IncludesIdle /\ HandlersIdle
outsideMerge == <<searchVars, lifetimeVars, prependVars, orVars, referenceVars, optionsVars, pathsVars, paramsVars, chainedVars, sortsVars, includesVars, handlersVars>>
OutsideMergeIdle == SearchIdle /\ LifetimeIdle /\ PrependIdle /\ OrIdle /\ ReferenceIdle /\ OptionsIdle /\ PathsIdle /\ ParamsIdle /\ ChainedIdle /\ SortsIdle /\ IncludesIdle /\ HandlersIdle
outsideOr == <<searchVars, lifetimeVars, prependVars, mergeVars, referenceVars, optionsVars, pathsVars, paramsVars, chainedVars, sortsVars, includesVars, handlersVars>>
OutsideOrIdle == SearchIdle /\ LifetimeIdle /\ PrependIdle /\ MergeIdle /\ ReferenceIdle /\ OptionsIdle /\ PathsIdle /\ ParamsIdle /\ ChainedIdle /\ SortsIdle /\ IncludesIdle /\ HandlersIdle
outsideReference == <<searchVars, lifetimeVars, prependVars, mergeVars, orVars, optionsVars, pathsVars, paramsVars, chainedVars, sortsVars, includesVars, handlersVars>>
OutsideReferenceIdle == SearchIdle /\ LifetimeIdle /\ PrependIdle /\ MergeIdle /\ OrIdle /\ OptionsIdle /\ PathsIdle /\ ParamsIdle /\ ChainedIdle /\ SortsIdle /\ IncludesIdle /\ HandlersIdle
outsideOptions == <<searchVars, lifetimeVars, prependVars, mergeVars, orVars, referenceVars, pathsVars, paramsVars, chainedVars, sortsVars, includesVars, handlersVars>>
OutsideOptionsIdle == SearchIdle /\ LifetimeIdle /\ PrependIdle /\ MergeIdle /\ OrIdle /\ ReferenceIdle /\ PathsIdle /\ ParamsIdle /\ ChainedIdle /\ SortsIdle /\ IncludesIdle /\ HandlersIdle
outsidePaths == <<searchVars, lifetimeVars, prependVars, mergeVars, orVars, referenceVars, optionsVars, paramsVars, chainedVars, sortsVars, includesVars, handlersVars>>
OutsidePathsIdle == SearchIdle /\ LifetimeIdle /\ PrependIdle /\ MergeIdle /\ OrIdle /\ ReferenceIdle /\ OptionsIdle /\ ParamsIdle /\ ChainedIdle /\ SortsIdle /\ IncludesIdle /\ HandlersIdle
outsideParams == <<searchVars, lifetimeVars, prependVars, mergeVars, orVars, referenceVars, optionsVars, pathsVars, chainedVars, sortsVars, includesVars, handlersVars>>
OutsideParamsIdle == SearchIdle /\ LifetimeIdle /\ PrependIdle /\ MergeIdle /\ OrIdle /\ ReferenceIdle /\ OptionsIdle /\ PathsIdle /\ ChainedIdle /\ SortsIdle /\ IncludesIdle /\ HandlersIdle
outsideChained == <<searchVars, lifetimeVars, prependVars, mergeVars, orVars, referenceVars, optionsVars, pathsVars, paramsVars, sortsVars, includesVars, handlersVars>>
OutsideChainedIdle == SearchIdle /\ LifetimeIdle /\ PrependIdle /\ MergeIdle /\ OrIdle /\ ReferenceIdle /\ OptionsIdle /\ PathsIdle /\ ParamsIdle /\ SortsIdle /\ IncludesIdle /\ HandlersIdle
outsideSorts == <<searchVars, lifetimeVars, prependVars, mergeVars, orVars, referenceVars, optionsVars, pathsVars, paramsVars, chainedVars, includesVars, handlersVars>>
OutsideSortsIdle == SearchIdle /\ LifetimeIdle /\ PrependIdle /\ MergeIdle /\ OrIdle /\ ReferenceIdle /\ OptionsIdle /\ PathsIdle /\ ParamsIdle /\ ChainedIdle /\ IncludesIdle /\ HandlersIdle
outsideIncludes == <<searchVars, lifetimeVars, prependVars, mergeVars, orVars, referenceVars, optionsVars, pathsVars, paramsVars, chainedVars, sortsVars, handlersVars>>
OutsideIncludesIdle == SearchIdle /\ LifetimeIdle /\ PrependIdle /\ MergeIdle /\ OrIdle /\ ReferenceIdle /\ OptionsIdle /\ PathsIdle /\ ParamsIdle /\ ChainedIdle /\ SortsIdle /\ HandlersIdle
outsideHandlers == <<searchVars, lifetimeVars, prependVars, mergeVars, orVars, referenceVars, optionsVars, pathsVars, paramsVars, chainedVars, sortsVars, includesVars>>
OutsideHandlersIdle == SearchIdle /\ LifetimeIdle /\ PrependIdle /\ MergeIdle /\ OrIdle /\ ReferenceIdle /\ OptionsIdle /\ PathsIdle /\ ParamsIdle /\ ChainedIdle /\ SortsIdle /\ IncludesIdle

\* What a driver operation of a call can report: success, or an error ("err":
\* a driver failure or the cancellation of the request context, which the code
\* cannot tell apart). "cancelled" is the cancellation seen by an operation whose
\* error Search drops (the cache lookup): it fails every later operation.
Outcomes(call) == IF call.cancelled THEN {"err"} ELSE {"ok", "err"}
LookupOutcomes(call) == Outcomes(call) \cup {"cancelled"}
ReadOutcomes(call) == Outcomes(call) \cup (IF call.cancelled THEN {} ELSE {"decodeErr", "resourceErr"})
\* A count, find or aggregate operation can also be killed on the server: the
\* driver then reports a command error with code opInterruptedCode (11601).
OperationOutcomes(call) == Outcomes(call) \cup (IF call.cancelled THEN {} ELSE {"interrupted"})

Observe(call, op, o) ==
    [Log(call, op) EXCEPT !.cancelled = @ \/ o = "cancelled"]
Fail(call, op, o) ==
    [Observe(call, op, o) EXCEPT !.failed = TRUE,
                                 !.interrupted = (o = "interrupted")]

\* Some request with another fingerprint.
OtherRequest(q) == CHOOSE r \in Queries : QueryHash(r) # QueryHash(q)

\* The searcher is built with any configuration.  countcache is a collection
\* of the database: a read-only server with counts finds it empty or already
\* holding an entry, for this fingerprint or another, whose count is right for
\* the unchanging data (a server that does not use the cache never looks; a
\* query that does not compile never had its count recorded).
Init ==
    /\ m \in [readonly : BOOLEAN, countTotalResults : BOOLEAN]
    /\ request \in Queries
    /\ preloaded \in {<< >>} \cup
            {<<CountCache(QueryHash(q), 0, ExpectedTotal(q))>> :
                q \in IF CacheEnabled(m)
                      THEN {r \in {request, OtherRequest(request)} :
                                convertToBSONPanic(r) = Nil}
                      ELSE {}}
    /\ countcache = preloaded
    /\ calls = EmptyBag
    /\ OutsideSearchIdle

\* The calls made so far, and how many of them have returned.
Started == BagToSet(calls)
Returned == BagCardinality([c \in {d \in Started : d.pc = "done"} |-> calls[c]])

\* The call in state c moves to state next.
Step(c, next) == (calls (-) SetToBag({c})) (+) SetToBag({next})

\* Search, lines 146-157.
SearchBegin(q) ==
    /\ q = request
    /\ BagCardinality(calls) < MaxCalls
    /\ LET started == [IdleCall EXCEPT !.query = q, !.after = Returned]
       IN calls' = calls (+) SetToBag({
                      IF CacheEnabled(m)
                      THEN [started EXCEPT !.pc = "lookup", !.queryHash = QueryHash(q)]
                      ELSE AfterLookup(started, m)})
    /\ UNCHANGED <<m, request, countcache, preloaded, outsideSearch>>

\* Search, lines 158-164 (FindOne on countcache) and on to the first operation
\* of find or aggregate.
CacheLookup(c) ==
    /\ c.pc = "lookup"
    /\ \E o \in LookupOutcomes(c) :
         LET call == Observe(c, "FindOne", o)
             found == FindOne(countcache, call.queryHash)
         IN calls' = Step(c,
                        IF o = "ok" /\ found # << >>
                        THEN AfterLookup([call EXCEPT !.total = found[1].Count,
                                                      !.doCount = FALSE,
                                                      !.cacheHit = TRUE], m)
                        ELSE AfterLookup(call, m))
    /\ UNCHANGED <<m, request, countcache, preloaded, outsideSearch>>

\* The count operation of find (lines 364-371) or aggregate (lines 276-301).
CountOp(c) ==
    /\ c.pc = "count"
    /\ LET b == convertToBSON(c.query)
           direct == ~c.usesPipeline \/ Len(Get(b.Pipeline)) = 1
           op == IF direct THEN "CountDocuments" ELSE "AggregateCount"
       IN \E o \in OperationOutcomes(c) :
            calls' = Step(c,
               IF o # "ok"
               THEN OnQueryError(Fail(c, op, o), m)
               ELSE IF direct
               THEN AfterCount(Observe(c, op, o),
                               uint32(CountDocuments(
                                   IF c.usesPipeline THEN Get(b.Pipeline)[1].q ELSE Get(b.Query))))
               ELSE [Observe(c, op, o) EXCEPT
                        !.pc = "countNext",
                        !.countCursor =
                            OpenCursor(RunPipeline(countPipeline(Get(b.Pipeline)), Collection))])
    /\ UNCHANGED <<m, request, countcache, preloaded, outsideSearch>>

\* aggregate, lines 302-320: one Next on the cursor of the count aggregation.
CountCursorNext(c) ==
    /\ c.pc = "countNext"
    /\ LET cur == c.countCursor
       IN \E o \in ReadOutcomes(c) \ {"resourceErr"} :
            /\ o = "decodeErr" => cur.docs # << >>
            /\ calls' = Step(c,
                 IF o = "ok" /\ cur.docs # << >>
                 THEN AfterCount([Observe(c, "CountNext", o) EXCEPT
                                     !.countCursor.pos = 1],
                                 uint32(cur.docs[1].total))
                 ELSE IF o = "ok"
                 THEN AfterCount([Observe(c, "CountNext", o) EXCEPT
                                     !.countCursor.state = "closed"], 0)
                 ELSE IF o = "decodeErr"
                 THEN OnQueryError([Fail(c, "CountNext", o) EXCEPT
                                     !.countCursor.pos = 1], m)
                 ELSE OnQueryError(Fail(c, "CountNext", o), m))
    /\ UNCHANGED <<m, request, countcache, preloaded, outsideSearch>>

\* c.Find (line 400) or c.Aggregate of the search pipeline (line 335).
QueryOp(c) ==
    /\ c.pc = "query"
    /\ LET b == convertToBSON(c.query)
           options == c.query.options
           op == IF c.usesPipeline THEN "Aggregate" ELSE "Find"
       IN \E o \in OperationOutcomes(c) :
            calls' = Step(c,
               IF o # "ok"
               THEN OnQueryError(Fail(c, op, o), m)
               ELSE [Observe(c, op, o) EXCEPT
                        !.pc = "collect",
                        !.cursor = OpenCursor(
                            IF c.usesPipeline
                            THEN RunPipeline(searchPipeline(b, options), Collection)
                            ELSE Find(Get(b.Query), options))])
    /\ UNCHANGED <<m, request, countcache, preloaded, outsideSearch>>

\* Search, lines 232-249: one iteration of the collecting loop, or its end.
CursorNext(c) ==
    /\ c.pc = "collect"
    /\ LET cur == c.cursor
           more == cur.pos < Len(cur.docs)
       IN \E o \in ReadOutcomes(c) :
            /\ o \in {"decodeErr", "resourceErr"} => more
            /\ calls' = Step(c,
                 IF o = "ok" /\ more
                 THEN [Observe(c, "Next", o) EXCEPT
                          !.cursor.pos = @ + 1,
                          !.resources = Append(@, cur.docs[cur.pos + 1].id)]
                 ELSE IF o = "ok"
                 THEN AfterCollect([Observe(c, "NextEOF", o) EXCEPT
                                       !.cursor.state = "closed"], m)
                 ELSE IF o = "decodeErr"
                 THEN OnDecodeError([Fail(c, "Next", o) EXCEPT !.cursor.pos = @ + 1],
                                    "Search result decoding error")
                 ELSE IF o = "resourceErr"
                 THEN OnDecodeError([Fail(c, "Next", o) EXCEPT !.cursor.pos = @ + 1],
                                    "Search: NewResourceFromBSON failed")
                 ELSE OnCursorError(Fail(c, "NextErr", o), m))
    /\ UNCHANGED <<m, request, countcache, preloaded, outsideSearch>>

\* Search, lines 251-267: InsertOne on countcache, its error dropped.
CacheInsert(c) ==
    /\ c.pc = "insert"
    /\ \E o \in Outcomes(c) :
         LET call == Observe(c, "InsertOne", o)
             doc == CountCache(call.queryHash, call.total, call.computedTotal)
             stored == IF o = "ok" THEN InsertOne(countcache, doc) ELSE countcache
         IN /\ countcache' = stored
            /\ calls' = Step(c,
                  Return([call EXCEPT !.insertOutcome = o,
                                      !.inserted = (stored # countcache)],
                         Ret(call.resources,
                             FinalTotal(call.doCount, call.total, call.computedTotal),
                             Nil)))
    /\ UNCHANGED <<m, request, preloaded, outsideSearch>>

Next ==
    \/ \E q \in Queries : SearchBegin(q)
    \/ \E c \in Started : CacheLookup(c)
    \/ \E c \in Started : CountOp(c)
    \/ \E c \in Started : CountCursorNext(c)
    \/ \E c \in Started : QueryOp(c)
    \/ \E c \in Started : CursorNext(c)
    \/ \E c \in Started : CacheInsert(c)

Spec == Init /\ [][Next]_vars


\* ------------------------------------------- construction and Close
\* A MongoSearcher: the fields db, client, session and the flags, and what its
\* constructor did (ctor; connected, started: the client it connected and the
\* session it started, 0 for none), and whether Close has been called on it.
MongoSearcher(ctor, db, client, session, cfg, connected, started) ==
    [ctor |-> ctor, db |-> db, client |-> client, session |-> session,
     countTotalResults |-> cfg.countTotalResults, readonly |-> cfg.readonly,
     connected |-> connected, started |-> started, closed |-> FALSE]

Configs == [readonly : BOOLEAN, countTotalResults : BOOLEAN]

\* NewMongoSearcher(db, ctx, ...): for an already open session; client and
\* session stay nil.
NewMongoSearcher(cfg) ==
    /\ Len(searchers) < MaxSearchers
    /\ searchers' = Append(searchers,
                       MongoSearcher("NewMongoSearcher", 1, None, None, cfg, 0, 0))
    /\ UNCHANGED <<clients, sessions, outsideLifetime>>

\* The struct literal of NewMongoSearcherForUri (lines 118-126): db, ctx,
\* session and the flags; the client field is not among them.
ForUriLiteral(db, client, session, cfg) ==
    MongoSearcher("NewMongoSearcherForUri", db, None, Some(session), cfg,
                  client, session)

\* NewMongoSearcherForUri(mongoUri, mongoDatabaseName, ...): Connect, then
\* StartSession; an error of either is a panic (after a failed StartSession
\* the client stays connected).
NewMongoSearcherForUri(cfg) ==
    /\ Len(searchers) < MaxSearchers
    /\ Len(clients) <= MaxSearchers
    /\ \E o \in {"ok", "connectErr", "sessionErr"} :
         LET client == Len(clients) + 1
             session == Len(sessions) + 1
         IN CASE o = "connectErr" ->
                    UNCHANGED <<searchers, clients, sessions>>
              [] o = "sessionErr" ->
                    /\ clients' = Append(clients, TRUE)
                    /\ UNCHANGED <<searchers, sessions>>
              [] o = "ok" ->
                    /\ clients' = Append(clients, TRUE)
                    /\ sessions' = Append(sessions, FALSE)
                    /\ searchers' = Append(searchers,
                                       ForUriLiteral(client, client, session, cfg))
    /\ UNCHANGED outsideLifetime

\* Close: if m.client != nil { m.session.EndSession; m.client.Disconnect }
Close(i) ==
    /\ LET s == searchers[i]
       IN IF s.client # None
          THEN /\ sessions' = [sessions EXCEPT ![Get(s.session)] = TRUE]
               /\ clients' = [clients EXCEPT ![Get(s.client)] = FALSE]
          ELSE UNCHANGED <<clients, sessions>>
    /\ searchers' = [searchers EXCEPT ![i].closed = TRUE]
    /\ UNCHANGED outsideLifetime

LifetimeNext ==
    \/ \E cfg \in Configs : NewMongoSearcher(cfg)
    \/ \E cfg \in Configs : NewMongoSearcherForUri(cfg)
    \/ \E i \in 1..Len(searchers) : Close(i)

LifetimeInit == LifetimeIdle /\ OutsideLifetimeIdle

SpecLifetime == LifetimeInit /\ [][LifetimeNext]_vars


\* ------------------------------------ chained search: rewriting the paths
\* A SearchParamPath {Path, Type}; the Path is the FHIR path and, in front of
\* it, the "_lookupJ." prefixes put there (lookups, outermost first).
SearchParamPath(path, type) == [lookups |-> << >>, Path |-> path, Type |-> type]

\* A SearchParamInfo is a struct: copying it copies Name, Modifier and the
\* slice headers, so that the copy's Paths is the same backing array (Paths is
\* the array's address in arrays).
SearchParamInfo(name, paths, targets) ==
    [Name |-> name, Paths |-> paths, Modifier |-> "", Targets |-> targets]

\* The backing arrays of the dictionary's Paths slices.
DictionaryArrays ==
    << <<SearchParamPath("name", "HumanName")>>,
       <<SearchParamPath("[]address.city", "string"),
         SearchParamPath("[]address.line", "string")>>,
       <<SearchParamPath("managingOrganization", "Reference")>> >>

SearchParameterDictionary ==
    [n \in {"name", "address", "organization"} |->
        CASE n = "name" -> SearchParamInfo("name", 1, << >>)
          [] n = "address" -> SearchParamInfo("address", 2, << >>)
          [] n = "organization" -> SearchParamInfo("organization", 3, <<"Organization">>)]

\* A parsed SearchParam carries the dictionary's SearchParamInfo by value.
SearchParam(name) == [info |-> SearchParameterDictionary[name]]

\* info.clone(): a copy whose Paths has a backing array of its own.
clone(heap, info) ==
    [arrays |-> Append(heap, heap[info.Paths]),
     info |-> [info EXCEPT !.Paths = Len(heap) + 1]]

\* duplicatePaths(&info, n): [a, b] becomes [a, a, a, b, b, b] in a new array.
duplicatePaths(heap, info, n) ==
    LET paths == heap[info.Paths]
        newPaths == [k \in 1..(Len(paths) * n) |-> paths[((k - 1) \div n) + 1]]
    IN [arrays |-> Append(heap, newPaths),
        info |-> [info EXCEPT !.Paths = Len(heap) + 1]]

\* searchInfo.Paths[i].Path = "_lookup" + strconv.Itoa(i%n) + "." + searchPath.Path
prependLookupKey(heap, info, n) ==
    [arrays |-> [heap EXCEPT ![info.Paths] =
                    [k \in 1..Len(@) |->
                        [@[k] EXCEPT !.lookups = <<(k - 1) % n>> \o @]]],
     info |-> info]

\* Mutant: the info is rewritten as it is, without the clone.
rewriteInfoInPlace(heap, info, n) ==
    LET dup == IF n > 1 THEN duplicatePaths(heap, info, n)
               ELSE [arrays |-> heap, info |-> info]
    IN prependLookupKey(dup.arrays, dup.info, n)

\* The body of the loops of prependLookupKeyToSearchPaths (lines 741-752 and
\* 756-764): clone, duplicate when there are several reference paths, prefix.
rewriteInfo(heap, info, n) ==
    LET cl == clone(heap, info)
        dup == IF n > 1 THEN duplicatePaths(cl.arrays, cl.info, n) ELSE cl
    IN prependLookupKey(dup.arrays, dup.info, n)

RECURSIVE SeqsUpTo(_, _)
SeqsUpTo(S, n) ==
    IF n = 0 THEN {<< >>}
    ELSE LET shorter == SeqsUpTo(S, n - 1)
         IN shorter \cup {Append(q, x) : q \in shorter, x \in S}

\* A chained or reverse-chained reference with 1..MaxReferencePaths reference
\* paths, alone or as an Or of references; the parameters to rewrite are the
\* parameters of its sub-query (for an Or: the first of each item's).
PrependInit ==
    /\ chain \in [isOr : BOOLEAN, reverse : BOOLEAN,
                  numReferencePaths : 1..MaxReferencePaths]
    /\ matchParams \in
          {[i \in 1..Len(names) |-> SearchParam(names[i])] :
              names \in SeqsUpTo(DOMAIN SearchParameterDictionary, MaxSubParams) \ {<< >>}}
    /\ arrays = DictionaryArrays
    /\ ip = 1
    /\ OutsidePrependIdle

\* One turn of `for _, matchParam := range matchParams` (default case).
PrependDefault ==
    /\ ~chain.isOr
    /\ ip <= Len(matchParams)
    /\ LET r == rewriteInfo(arrays, matchParams[ip].info, chain.numReferencePaths)
       IN /\ arrays' = r.arrays
          /\ matchParams' = [matchParams EXCEPT ![ip].info = r.info]
    /\ ip' = ip + 1
    /\ UNCHANGED <<chain, outsidePrepend>>

\* One turn of `for _, item := range param.Items` (case *OrParam).
PrependOrItem ==
    /\ chain.isOr
    /\ ip <= Len(matchParams)
    /\ LET r == rewriteInfo(arrays, matchParams[ip].info, chain.numReferencePaths)
       IN /\ arrays' = r.arrays
          /\ matchParams' = [matchParams EXCEPT ![ip].info = r.info]
    /\ ip' = ip + 1
    /\ UNCHANGED <<chain, outsidePrepend>>

PrependNext == PrependDefault \/ PrependOrItem

SpecPrepend == PrependInit /\ [][PrependNext]_vars


\* ------------------------------------------------------- query documents
\* A bson.M is a function from keys to values.  A key is a string, written as
\* the sequence of its symbols: the characters the code looks at ("$", ".",
\* "[", "]", the digits) one by one, a name as one symbol (<<"gender">>,
\* <<"$", "or">>, <<"name", ".", "family">>).  A value is a scalar (a string,
\* or a case-insensitive regular expression for one), a bson.M or a []bson.M.
EmptyM == << >>
Scalar(x) == [t |-> "scalar", s |-> x, d |-> EmptyM, l |-> << >>]
Doc(d) == [t |-> "M", s |-> "", d |-> d, l |-> << >>]
List(l) == [t |-> "list", s |-> "", d |-> EmptyM, l |-> l]
Regex(x) == [t |-> "regex", s |-> x, d |-> EmptyM, l |-> << >>]
AndKey == <<"$", "and">>
OrKey == <<"$", "or">>

\* The server's matching of a query document against a stored document, for
\* the operators the assembler itself produces ($and, $or) over equality
\* predicates: every entry of the query document must hold.
RECURSIVE bsonMatches(_, _)
bsonMatches(data, query) ==
    \A k \in DOMAIN query :
        IF k = AndKey
        THEN \A i \in 1..Len(query[k].l) : bsonMatches(data, query[k].l[i])
        ELSE IF k = OrKey
        THEN \E i \in 1..Len(query[k].l) : bsonMatches(data, query[k].l[i])
        ELSE k \in DOMAIN data /\ data[k] = query[k].s

\* The orders in which a range over a Go map can visit its keys.
RangeOrders(keys) ==
    {o \in [1..Cardinality(keys) -> keys] : \A k \in keys : \E i \in DOMAIN o : o[i] = k}

\* merge, one iteration of its loop on the entry k: v of from.  A mutation
\* first: the incoming value replaces the one the result holds.
mergeEntryOverwrite(into, and, k, v) ==
    IF k = AndKey
    THEN [into |-> into, and |-> and \o v.l]
    ELSE [into |-> (k :> v) @@ into, and |-> and]

mergeEntry(into, and, k, v) ==
    IF k = AndKey
    THEN [into |-> into, and |-> and \o v.l]
    ELSE IF k \in DOMAIN into
    THEN [into |-> into, and |-> Append(and, k :> v)]
    ELSE [into |-> (k :> v) @@ into, and |-> and]

RECURSIVE mergeRange(_, _, _, _)
mergeRange(into, and, from, order) ==
    IF order = << >> THEN [into |-> into, and |-> and]
    ELSE LET k == Head(order)
             next == mergeEntry(into, and, k, from[k])
         IN mergeRange(next.into, next.and, from, Tail(order))

\* merge(into, from), the range visiting from's keys in the given order; the
\* value is into as the call leaves it.
merge(into, from, order) ==
    LET and == IF AndKey \in DOMAIN into THEN into[AndKey].l ELSE << >>
        done == mergeRange(into, and, from, order)
    IN IF Len(done.and) > 0
       THEN (AndKey :> List(done.and)) @@ done.into
       ELSE done.into

\* Predicates a parameter can compile to: one key, two keys, the same key with
\* another value, a disjunction, a conjunction, and the empty document.
Male == (<<"gender">> :> Scalar("male"))
Female == (<<"gender">> :> Scalar("female"))
Born1970 == (<<"birthDate">> :> Scalar("1970"))
ParamObjects ==
    {Male, Female, Born1970,
     Male @@ Born1970,
     (OrKey :> List(<<Male, Born1970>>)),
     (AndKey :> List(<<Female>>)),
     EmptyM}

\* Stored documents, as far as the predicates look at them.
DataDocs ==
    {(<<"gender">> :> g) @@ (<<"birthDate">> :> b) :
        g \in {"male", "female"}, b \in {"1970", "1980"}}

\* createQueryObjectFromParams: result starts as bson.M{} and every predicate
\* of createParamObjects is merged into it, in order.
MergeInit ==
    /\ paramObjects \in SeqsUpTo(ParamObjects, MaxParams) \ {<< >>}
    /\ result = EmptyM
    /\ merged = 0
    /\ OutsideMergeIdle

MergeParam ==
    /\ merged < Len(paramObjects)
    /\ \E order \in RangeOrders(DOMAIN paramObjects[merged + 1]) :
          result' = merge(result, paramObjects[merged + 1], order)
    /\ merged' = merged + 1
    /\ UNCHANGED <<paramObjects, outsideMerge>>

MergeNext == MergeParam

SpecMerge == MergeInit /\ [][MergeNext]_vars


\* ------------------------------------------------------------ orPaths
\* "The bson is just an $or": one entry, under "$or".
isLoneOr(doc) == Cardinality(DOMAIN doc) = 1 /\ OrKey \in DOMAIN doc

\* orPaths, one iteration of its loop: what results is after the path whose
\* single-path predicate is single.  A mutation first: a lone $or is appended
\* as it is.
orPathsAppendNested(collected, single) == Append(collected, single)

orPathsAppend(collected, single) ==
    IF isLoneOr(single)
    THEN collected \o single[OrKey].l
    ELSE Append(collected, single)

\* Single-path predicates the builders produce: one key, two keys, a lone $or
\* of two branches and of one, a $or beside another key, the empty document.
SinglePredicates ==
    {Male, Born1970,
     Male @@ Born1970,
     (OrKey :> List(<<Male, Born1970>>)),
     (OrKey :> List(<<Female>>)),
     (OrKey :> List(<<Female, Male>>)) @@ Born1970,
     EmptyM}

\* What orPaths returns for the branches it collected.
orPathsReturned(collected) ==
    IF Len(collected) = 1 THEN collected[1] ELSE (OrKey :> List(collected))

\* orPaths as a function of the single-path predicates.
RECURSIVE orPathsResults(_)
orPathsResults(ss) ==
    IF ss = << >> THEN << >>
    ELSE orPathsAppend(orPathsResults(SubSeq(ss, 1, Len(ss) - 1)), ss[Len(ss)])

orPaths(ss) == orPathsReturned(orPathsResults(ss))

OrPathsInit ==
    /\ singles \in SeqsUpTo(SinglePredicates, MaxPaths) \ {<< >>}
    /\ results = << >>
    /\ oi = 1
    /\ orReturn = None
    /\ OutsideOrIdle

OrPathsLoop ==
    /\ orReturn = None
    /\ oi <= Len(singles)
    /\ results' = orPathsAppend(results, singles[oi])
    /\ oi' = oi + 1
    /\ UNCHANGED <<singles, orReturn, outsideOr>>

OrPathsReturn ==
    /\ orReturn = None
    /\ oi > Len(singles)
    /\ orReturn' = Some(orPathsReturned(results))
    /\ UNCHANGED <<singles, results, oi, outsideOr>>

OrPathsNext == OrPathsLoop \/ OrPathsReturn

SpecOrPaths == OrPathsInit /\ [][OrPathsNext]_vars


\* ------------------------------------------------------ paths and buildBSON
Digits == {"0", "1", "2", "3", "4", "5", "6", "7", "8", "9"}
Take(p, n) == SubSeq(p, 1, n)
Drop(p, n) == SubSeq(p, n + 1, Len(p))
\* The length of the longest prefix of p made of digits, of characters other
\* than ".", of characters other than "[" and "]" (a greedy \d*, [^\.]*,
\* [^\[\]]*).
DigitRun(p) ==
    CHOOSE n \in 0..Len(p) :
        /\ \A i \in 1..n : p[i] \in Digits
        /\ n = Len(p) \/ p[n + 1] \notin Digits
NonDotRun(p) ==
    CHOOSE n \in 0..Len(p) :
        /\ \A i \in 1..n : p[i] # "."
        /\ n = Len(p) \/ p[n + 1] = "."
NoBracketRun(p) ==
    CHOOSE n \in 0..Len(p) :
        /\ \A i \in 1..n : p[i] \notin {"[", "]"}
        /\ n = Len(p) \/ p[n + 1] \in {"[", "]"}

\* ReplaceAllString of \[(\d+)\]([^\.]+) by "$2.$1": "[0]entry.resource"
\* becomes "entry.0.resource".
RECURSIVE convertBracketIndexesToDotIndexes(_)
convertBracketIndexesToDotIndexes(path) ==
    IF path = << >> THEN << >>
    ELSE LET d == DigitRun(Tail(path))
             closed == Len(path) >= d + 2 /\ path[d + 2] = "]"
             n == IF closed THEN NonDotRun(Drop(path, d + 2)) ELSE 0
         IN IF path[1] = "[" /\ d >= 1 /\ closed /\ n >= 1
            THEN SubSeq(path, d + 3, d + 2 + n) \o <<".">> \o SubSeq(path, 2, d + 1)
                     \o convertBracketIndexesToDotIndexes(Drop(path, d + 2 + n))
            ELSE <<path[1]>> \o convertBracketIndexesToDotIndexes(Tail(path))

\* strings.Replace(s, "[]", "", -1)
RECURSIVE removeArrayMarkers(_)
removeArrayMarkers(p) ==
    IF p = << >> THEN << >>
    ELSE IF Len(p) >= 2 /\ p[1] = "[" /\ p[2] = "]"
    THEN removeArrayMarkers(Drop(p, 2))
    ELSE <<p[1]>> \o removeArrayMarkers(Tail(p))

convertSearchPathToMongoField(path) ==
    removeArrayMarkers(convertBracketIndexesToDotIndexes(path))

\* pathRegex, (.*\[\][^\.]*)\.?([^\[\]]*), on the indexed path: it matches when
\* the path holds a "[]"; the greedy .* runs to the last one.
ArrayMarkers(p) == {i \in 1..(Len(p) - 1) : p[i] = "[" /\ p[i + 1] = "]"}
pathRegexMatches(p) == ArrayMarkers(p) # {}
pathRegexSubmatch(p) ==
    LET last == CHOOSE i \in ArrayMarkers(p) : \A j \in ArrayMarkers(p) : j <= i
        end == last + 1 + NonDotRun(Drop(p, last + 1))
        rest == IF end < Len(p) /\ p[end + 1] = "." THEN Drop(p, end + 1) ELSE Drop(p, end)
    IN <<Take(p, end), Take(rest, NoBracketRun(rest))>>

isQueryOperator(key) == Len(key) > 0 /\ key[1] = "$"
ElemMatchKey == <<"$", "elemMatch">>

\* buildBSON(path, criteria) and its loop over the criteria's entries: an
\* entry under a plain key goes under path.key, "$or" has each of its branches
\* built under the path (processOrCriteria), and every other operator is
\* collected into the document under the path itself
\* (processQueryOperatorCriteria).
RECURSIVE buildBSON(_, _)
RECURSIVE buildPlainEntries(_, _, _)
buildPlainEntries(path, criteria, keys) ==
    IF keys = {} THEN EmptyM
    ELSE LET k == CHOOSE x \in keys : TRUE
         IN ((path \o <<".">> \o k) :> criteria[k])
                @@ buildPlainEntries(path, criteria, keys \ {k})

buildEntries(path, criteria) ==
    LET plain == {k \in DOMAIN criteria : ~isQueryOperator(k)}
        operators == {k \in DOMAIN criteria : isQueryOperator(k) /\ k # OrKey}
        ors == IF OrKey \in DOMAIN criteria THEN criteria[OrKey].l ELSE << >>
    IN buildPlainEntries(path, criteria, plain)
       @@ (IF operators # {}
           THEN (path :> Doc([k \in operators |-> criteria[k]]))
           ELSE EmptyM)
       @@ (IF OrKey \in DOMAIN criteria
           THEN (OrKey :> List([i \in 1..Len(ors) |-> buildBSON(path, Doc(ors[i]))]))
           ELSE EmptyM)

buildBSON(path, criteria) ==
    LET indexedPath == convertBracketIndexesToDotIndexes(path)
        normalizedPath == convertSearchPathToMongoField(path)
    IN IF criteria.t # "M"
       THEN (normalizedPath :> criteria)
       ELSE IF pathRegexMatches(indexedPath) /\ Cardinality(DOMAIN criteria.d) > 1
       THEN LET sub == pathRegexSubmatch(indexedPath)
                left == removeArrayMarkers(sub[1])
                right == sub[2]
                resultCriteria == IF Len(right) > 0
                                  THEN buildEntries(right, criteria.d)
                                  ELSE criteria.d
            IN (left :> Doc((ElemMatchKey :> Doc(resultCriteria))))
       ELSE buildEntries(normalizedPath, criteria.d)


\* ------------------------------------------------------ reference parameters
\* The Reference of a ReferenceParam.  The query of a chained reference is
\* written as the predicates its parameters compile to.
LocalReference(type, id) ==
    [kind |-> "Local", Type |-> type, ID |-> id, URL |-> "", Query |-> << >>]
ExternalReference(url) ==
    [kind |-> "External", Type |-> "", ID |-> "", URL |-> url, Query |-> << >>]
ChainedQueryReference(type, chainedQuery) ==
    [kind |-> "ChainedQuery", Type |-> type, ID |-> "", URL |-> "", Query |-> chainedQuery]
ReverseChainedQueryReference(type, query) ==
    [kind |-> "ReverseChainedQuery", Type |-> type, ID |-> "", URL |-> "", Query |-> query]

ReferenceParam(name, paths, reference) ==
    [Name |-> name, Paths |-> paths, Reference |-> reference]

isChained(r) == r.Reference.kind = "ChainedQuery"
isReverseChained(r) == r.Reference.kind = "ReverseChainedQuery"
\* usesChainedSearch and usesReverseChainedSearch of a ReferenceParam: by the
\* kind of its reference, whatever the types of its paths.
referenceUsesChainedSearch(r) == isChained(r)
referenceUsesReverseChainedSearch(r) == isReverseChained(r)

\* ci(s): a case-insensitive match when the searcher enables them.
ci(enableCISearches, x) == IF enableCISearches THEN Regex(x) ELSE Scalar(x)

\* createQueryObject of a chained query: its predicates merged in order.
RECURSIVE mergeInOrder(_, _)
mergeInOrder(into, objects) ==
    IF objects = << >> THEN into
    ELSE mergeInOrder(merge(into, Head(objects),
                            CHOOSE o \in RangeOrders(DOMAIN Head(objects)) : TRUE),
                      Tail(objects))

\* What a builder gives: the panic that unwinds out of it, or a predicate.
Panics(e) == [panic |-> e, doc |-> EmptyM]
Builds(doc) == [panic |-> Nil, doc |-> doc]

\* A mutation first: the inlined builder refuses the chained references as
\* the builder for reference fields does.
createInlinedReferenceQueryObjectRefusing(enableCISearches, r, p) ==
    LET ref == r.Reference
        resourceType == IF ref.Type # ""
                        THEN (<<"resourceType">> :> Scalar(ref.Type))
                        ELSE EmptyM
    IN IF ref.kind = "Local"
       THEN Builds(buildBSON(p.Path, Doc(resourceType @@ (<<"_id">> :> Scalar(ref.ID)))))
       ELSE IF ref.kind = "External"
       THEN Panics("UnsupportedSearch")
       ELSE Panics("InternalError")

createInlinedReferenceQueryObject(enableCISearches, r, p) ==
    LET ref == r.Reference
        resourceType == IF ref.Type # ""
                        THEN (<<"resourceType">> :> Scalar(ref.Type))
                        ELSE EmptyM
    IN IF ref.kind = "Local"
       THEN Builds(buildBSON(p.Path, Doc(resourceType @@ (<<"_id">> :> Scalar(ref.ID)))))
       ELSE IF ref.kind = "ChainedQuery"
       THEN Builds(buildBSON(p.Path, Doc(resourceType @@ mergeInOrder(EmptyM, ref.Query))))
       ELSE IF ref.kind = "External"
       THEN Panics("UnsupportedSearch")
       ELSE Builds(buildBSON(p.Path, Doc(EmptyM)))

\* single, the objFunc of createReferenceQueryObject.
referenceSingle(enableCISearches, r, p) ==
    LET ref == r.Reference
    IN IF p.Type = "Resource"
       THEN createInlinedReferenceQueryObject(enableCISearches, r, p)
       ELSE IF ref.kind = "Local"
       THEN Builds(buildBSON(p.Path,
                Doc((<<"reference__id">> :> Scalar(ref.ID))
                    @@ (IF ref.Type # ""
                        THEN (<<"reference__type">> :> Scalar(ref.Type))
                        ELSE EmptyM))))
       ELSE IF ref.kind = "External"
       THEN Builds(buildBSON(p.Path,
                Doc((<<"reference">> :> ci(enableCISearches, ref.URL)))))
       ELSE Panics("InternalError")

\* orPaths calls single for the paths in order: the first panic unwinds out
\* of createReferenceQueryObject.
createReferenceQueryObject(enableCISearches, r) ==
    LET built == [i \in 1..Len(r.Paths) |->
                     referenceSingle(enableCISearches, r, r.Paths[i])]
        panicking == {i \in 1..Len(r.Paths) : built[i].panic # Nil}
    IN IF panicking # {}
       THEN Panics(built[CHOOSE i \in panicking : \A j \in panicking : i <= j].panic)
       ELSE Builds(orPaths([i \in 1..Len(r.Paths) |-> built[i].doc]))

\* The $lookup stages of a chained and of a reverse-chained reference, one for
\* each path.
chainedLookups(r) ==
    [i \in 1..Len(r.Paths) |->
        [from |-> r.Reference.Type,
         localField |-> convertSearchPathToMongoField(r.Paths[i].Path)
                            \o <<".", "reference__id">>,
         foreignField |-> <<"_id">>,
         as |-> i - 1]]
reverseChainedLookups(r) ==
    [i \in 1..Len(r.Paths) |->
        [from |-> r.Reference.Type,
         localField |-> <<"_id">>,
         foreignField |-> convertSearchPathToMongoField(r.Paths[i].Path)
                              \o <<".", "reference__id">>,
         as |-> i - 1]]

\* What the compilation of the parameter gave: who received the parameter,
\* the panic or the predicate of the single-document builder, and the $lookup
\* stages of the pipeline.
Built(by, out, lookups) ==
    [by |-> by, panic |-> out.panic, doc |-> out.doc, lookups |-> lookups]

ReferencePaths ==
    {SearchParamPath(<<"subject">>, "Reference"),
     SearchParamPath(<<"[", "]", "performer">>, "Reference"),
     SearchParamPath(<<"[", "]", "entry", ".", "resource">>, "Resource")}
ChainedQueries == {<<Male>>, <<Male, Born1970>>}
References ==
    {LocalReference(t, "1") : t \in {"", "Patient"}}
    \cup {ExternalReference("http://acme.org/fhir/Patient/1")}
    \cup {ChainedQueryReference(t, q) : t \in {"", "Patient"}, q \in ChainedQueries}
    \cup {ReverseChainedQueryReference("Observation", q) : q \in ChainedQueries}

ReferenceInit ==
    /\ referenceSearcher \in BOOLEAN
    /\ referenceParam \in
          {ReferenceParam("subject", paths, ref) :
              paths \in SeqsUpTo(ReferencePaths, MaxPaths) \ {<< >>},
              ref \in References}
    /\ referenceCall = ""
    /\ referenceBuilt = None
    /\ OutsideReferenceIdle

\* convertToBSON of a query whose parameter it is: a chained or reverse-chained
\* parameter makes the query use the pipeline, where createPipelineObject gives
\* it to the chained stages; any other goes to createQueryObject.
ReferenceConvertToBSON ==
    /\ referenceBuilt = None
    /\ referenceCall' = "convertToBSON"
    /\ referenceBuilt' =
          Some(IF referenceUsesChainedSearch(referenceParam)
               THEN Built("createChainedSearchPipelineStages", Builds(EmptyM),
                          chainedLookups(referenceParam))
               ELSE IF referenceUsesReverseChainedSearch(referenceParam)
               THEN Built("createReverseChainedSearchPipelineStages", Builds(EmptyM),
                          reverseChainedLookups(referenceParam))
               ELSE Built("createReferenceQueryObject",
                          createReferenceQueryObject(referenceSearcher, referenceParam),
                          << >>))
    /\ UNCHANGED <<referenceSearcher, referenceParam, outsideReference>>

\* createParamObjects of a parameter list that holds it (the parameters of a
\* chained query, the items of an Or): every ReferenceParam goes to
\* createReferenceQueryObject.
ReferenceCreateParamObjects ==
    /\ referenceBuilt = None
    /\ referenceCall' = "createParamObjects"
    /\ referenceBuilt' =
          Some(Built("createReferenceQueryObject",
                     createReferenceQueryObject(referenceSearcher, referenceParam),
                     << >>))
    /\ UNCHANGED <<referenceSearcher, referenceParam, outsideReference>>

ReferenceNext == ReferenceConvertToBSON \/ ReferenceCreateParamObjects

SpecReference == ReferenceInit /\ [][ReferenceNext]_vars


\* ------------------------------------------ options: find and aggregate
\* A SortOption, by the path its parameter has first (Parameter.Paths[0].Path).
SortOption(path, descending) == [Path |-> path, Descending |-> descending]

\* ReplaceAllString of \[\d+\] by "[]".
RECURSIVE dropIndexers(_)
dropIndexers(path) ==
    IF path = << >> THEN << >>
    ELSE LET d == DigitRun(Tail(path))
         IN IF path[1] = "[" /\ d >= 1 /\ Len(path) >= d + 2 /\ path[d + 2] = "]"
            THEN <<"[", "]">> \o dropIndexers(Drop(path, d + 2))
            ELSE <<path[1]>> \o dropIndexers(Tail(path))

Contains(p, c) == \E i \in 1..Len(p) : p[i] = c

isParallelArrayPath(path1, path2) ==
    IF ~Contains(path1, "[") \/ ~Contains(path2, "[") THEN FALSE
    ELSE LET p1 == dropIndexers(path1)
             p2 == dropIndexers(path2)
             differ == {i \in 1..Len(p1) : i <= Len(p2) /\ p1[i] # p2[i]}
         IN IF differ = {} THEN FALSE
            ELSE LET i == CHOOSE x \in differ : \A y \in differ : x <= y
                 IN Contains(Take(p1, i - 1), "[")

\* removeParallelArraySorts as the claim words it: a key is compared with every
\* earlier key of the list, kept or dropped.
RECURSIVE nonParallelSortsOfAll(_, _)
nonParallelSortsOfAll(npSorts, sorts) ==
    IF sorts = << >> THEN << >>
    ELSE LET sort == Head(sorts)
             isParallel == \E i \in 1..Len(npSorts) :
                               isParallelArrayPath(sort.Path, npSorts[i].Path)
         IN (IF isParallel THEN << >> ELSE <<sort>>)
            \o nonParallelSortsOfAll(Append(npSorts, sort), Tail(sorts))

\* removeParallelArraySorts: the Sort list it leaves in the options.
RECURSIVE nonParallelSorts(_, _)
nonParallelSorts(npSorts, sorts) ==
    IF sorts = << >> THEN npSorts
    ELSE LET sort == Head(sorts)
             isParallel == \E i \in 1..Len(npSorts) :
                               isParallelArrayPath(sort.Path, npSorts[i].Path)
         IN nonParallelSorts(IF isParallel THEN npSorts ELSE Append(npSorts, sort),
                             Tail(sorts))
removeParallelArraySorts(o) == [o EXCEPT !.Sort = nonParallelSorts(<< >>, o.Sort)]

\* The sort document (bson.D) both modes build from the options.
sortFields(o) ==
    [i \in 1..Len(o.Sort) |->
        [Key |-> convertSearchPathToMongoField(o.Sort[i].Path),
         Value |-> IF o.Sort[i].Descending THEN -1 ELSE 1]]

\* The server's sort: by the fields in order, a missing field before any
\* value, documents that compare equal left in their order.
FieldOf(doc, key) == IF key \in DOMAIN doc THEN doc[key] ELSE 0
RECURSIVE SortsBefore(_, _, _)
SortsBefore(d1, d2, fields) ==
    IF fields = << >> THEN FALSE
    ELSE LET v1 == FieldOf(d1, Head(fields).Key)
             v2 == FieldOf(d2, Head(fields).Key)
         IN IF v1 = v2 THEN SortsBefore(d1, d2, Tail(fields))
            ELSE IF Head(fields).Value = 1 THEN v1 < v2 ELSE v1 > v2
RECURSIVE SortDocs(_, _)
SortDocs(docs, fields) ==
    IF docs = << >> THEN << >>
    ELSE LET rest == SortDocs(Tail(docs), fields)
             ahead == Cardinality({i \in 1..Len(rest) : SortsBefore(rest[i], Head(docs), fields)})
         IN Take(rest, ahead) \o <<Head(docs)>> \o Drop(rest, ahead)

\* What the driver returns: an error, or a cursor over documents.
Cursor(docs) == [err |-> Nil, docs |-> docs]
CommandError(e) == [err |-> e, docs |-> << >>]

\* c.Find(ctx, filter, options): sort, skip and limit are applied in this
\* order when set; a limit of 0 is no limit.
FindCommand(docs, filter, bundle) ==
    LET matched == SelectSeq(docs, LAMBDA d : bsonMatches(d, filter))
        sorted == IF bundle.sort # None THEN SortDocs(matched, bundle.sort[1]) ELSE matched
        skipped == IF bundle.skip # None THEN Skip(sorted, bundle.skip[1]) ELSE sorted
    IN Cursor(IF bundle.limit # None /\ bundle.limit[1] # 0
              THEN Limit(skipped, bundle.limit[1])
              ELSE skipped)

\* c.Aggregate(ctx, pipeline): the server refuses a pipeline with a $limit
\* that is not positive, and runs the stages in order otherwise.
Stage(op, query, fields, n) == [op |-> op, query |-> query, fields |-> fields, n |-> n]
RECURSIVE RunStages(_, _)
RunStages(pipeline, docs) ==
    IF pipeline = << >> THEN docs
    ELSE LET stage == Head(pipeline)
         IN RunStages(Tail(pipeline),
                CASE stage.op = "$match" ->
                        SelectSeq(docs, LAMBDA d : bsonMatches(d, stage.query))
                  [] stage.op = "$sort" -> SortDocs(docs, stage.fields)
                  [] stage.op = "$skip" -> Skip(docs, stage.n)
                  [] stage.op = "$limit" -> Limit(docs, stage.n))
AggregateCommand(docs, pipeline) ==
    IF \E i \in 1..Len(pipeline) : pipeline[i].op = "$limit" /\ pipeline[i].n <= 0
    THEN CommandError("the limit must be positive")
    ELSE Cursor(RunStages(pipeline, docs))

\* find: the options as a driver options bundle.
findOptionsBundle(queryOptions0) ==
    LET o == removeParallelArraySorts(queryOptions0)
    IN [sort |-> IF Len(o.Sort) > 0 THEN Some(sortFields(o)) ELSE None,
        skip |-> IF o.Offset > 0 THEN Some(o.Offset) ELSE None,
        limit |-> Some(o.Count)]
find(docs, query, o) == FindCommand(docs, query, findOptionsBundle(o))

\* convertOptionsToPipelineStages, for options without includes.
sortSkipLimitStages(queryOptions0) ==
    LET o == removeParallelArraySorts(queryOptions0)
    IN (IF Len(o.Sort) > 0 THEN <<Stage("$sort", EmptyM, sortFields(o), 0)>> ELSE << >>)
       \o (IF o.Offset > 0 THEN <<Stage("$skip", EmptyM, << >>, o.Offset)>> ELSE << >>)
       \o <<Stage("$limit", EmptyM, << >>, o.Count)>>
aggregate(docs, pipeline, o) == AggregateCommand(docs, pipeline \o sortSkipLimitStages(o))

\* Stored resources, with the fields the sorts look at.
StoredDocs ==
    {(<<"gender">> :> "male") @@ (<<"a", ".", "x">> :> 1)
        @@ (<<"a", ".", "y">> :> 2) @@ (<<"b">> :> 1),
     (<<"gender">> :> "female") @@ (<<"a", ".", "x">> :> 2)
        @@ (<<"a", ".", "y">> :> 1) @@ (<<"b">> :> 1)}
SortOptions ==
    {SortOption(<<"[", "]", "a", ".", "x">>, FALSE),
     SortOption(<<"[", "]", "a", ".", "x">>, TRUE),
     SortOption(<<"[", "0", "]", "a", ".", "y">>, FALSE),
     SortOption(<<"b">>, TRUE)}

\* Any database state, any query document without chains, and any options
\* without includes.
OptionsInit ==
    /\ collection \in SeqsUpTo(StoredDocs, MaxStored)
    /\ assembled \in {EmptyM, Male}
    /\ queryOptions \in [Sort : SeqsUpTo(SortOptions, MaxSorts),
                         Offset : 0..MaxOffset,
                         Count : 0..MaxCount]
    /\ findResult = None
    /\ aggregateResult = None
    /\ OutsideOptionsIdle

OptionsFind ==
    /\ findResult = None
    /\ findResult' = Some(find(collection, assembled, queryOptions))
    /\ UNCHANGED <<collection, assembled, queryOptions, aggregateResult, outsideOptions>>

OptionsAggregate ==
    /\ aggregateResult = None
    /\ aggregateResult' =
          Some(aggregate(collection, <<Stage("$match", assembled, << >>, 0)>>, queryOptions))
    /\ UNCHANGED <<collection, assembled, queryOptions, findResult, outsideOptions>>

OptionsNext == OptionsFind \/ OptionsAggregate

SpecOptions == OptionsInit /\ [][OptionsNext]_vars


\* ------------------------------------------------- paths: the normalisation
\* The search paths: up to MaxPathTokens of the array marker "[]", the
\* indexers "[1]" and "[2]", the name "a" and the separator ".".
PathTokens == {<<"[", "]">>, <<"[", "1", "]">>, <<"[", "2", "]">>, <<"a">>, <<".">>}
RECURSIVE Flatten(_)
Flatten(tokens) ==
    IF tokens = << >> THEN << >> ELSE Head(tokens) \o Flatten(Tail(tokens))
SearchPaths == {Flatten(tokens) : tokens \in SeqsUpTo(PathTokens, MaxPathTokens)}

PathsInit ==
    /\ searchPath \in SearchPaths
    /\ mongoField = None
    /\ mongoFieldAgain = None
    /\ OutsidePathsIdle

PathsConvert ==
    /\ mongoField = None
    /\ mongoField' = Some(convertSearchPathToMongoField(searchPath))
    /\ UNCHANGED <<searchPath, mongoFieldAgain, outsidePaths>>

PathsConvertAgain ==
    /\ mongoField # None
    /\ mongoFieldAgain = None
    /\ mongoFieldAgain' = Some(convertSearchPathToMongoField(mongoField[1]))
    /\ UNCHANGED <<searchPath, mongoField, outsidePaths>>

PathsNext == PathsConvert \/ PathsConvertAgain

SpecPaths == PathsInit /\ [][PathsNext]_vars


\* ------------------------------------------- stored resources: the matching
\* A stored resource is a bson.M whose keys are field names (<<"period">>) and
\* whose values are scalars, nulls, documents and arrays of values.  The
\* scalars of the resources and of the parameters compiled for them are
\* written as sequences of symbols: a text letter by letter (<<"a", "B">>), a
\* date or a code system as one symbol (<<"2020-01-01">>).
Null == [t |-> "null", s |-> << >>, d |-> EmptyM, l |-> << >>]
Array(l) == [t |-> "array", s |-> << >>, d |-> EmptyM, l |-> l]
\* primitive.Regex{Pattern: "^" + QuoteMeta(s), Options: "i"}
StartsWith(x) == [t |-> "startsWith", s |-> x, d |-> EmptyM, l |-> << >>]

\* The instants of the dates in use, in days, and the letters' lower case.
Instant ==
    ("2019-12-31" :> 0) @@ ("2020-01-01" :> 1) @@ ("2020-01-02" :> 2)
    @@ ("2020-01-05" :> 5) @@ ("2020-01-06" :> 6) @@ ("2021-01-01" :> 367)
    @@ ("2021-01-02" :> 368)
Lower(c) == CASE c = "A" -> "a" [] c = "B" -> "b" [] c = "S" -> "s" [] OTHER -> c
ToLower(x) == [i \in DOMAIN x |-> Lower(x[i])]
IsPrefix(x, y) == Len(x) <= Len(y) /\ SubSeq(y, 1, Len(x)) = x

\* The field names of a dotted key, and the values a resource holds at them:
\* an array on the way stands for each of its elements.
RECURSIVE fieldNames(_)
fieldNames(key) ==
    LET n == NonDotRun(key)
    IN IF n = Len(key) THEN <<key>>
       ELSE <<Take(key, n)>> \o fieldNames(Drop(key, n + 1))
RECURSIVE Concat(_)
Concat(seqs) == IF seqs = << >> THEN << >> ELSE Head(seqs) \o Concat(Tail(seqs))
RECURSIVE valuesAt(_, _)
valuesAt(v, names) ==
    IF names = << >> THEN <<v>>
    ELSE IF v.t = "array"
    THEN Concat([i \in DOMAIN v.l |-> valuesAt(v.l[i], names)])
    ELSE IF v.t = "M" /\ Head(names) \in DOMAIN v.d
    THEN valuesAt(v.d[Head(names)], Tail(names))
    ELSE << >>
\* The values a condition on the field is tried on: the values themselves and
\* the elements of those that are arrays.
elementsOf(values) ==
    values \o Concat([i \in DOMAIN values |->
                         IF values[i].t = "array" THEN values[i].l ELSE << >>])

\* The server's matching of a query document against a stored resource:
\* $and, $or, and for a field an equality, a regular expression or a document
\* of operators ($gt, $gte, $lt, $lte, $ne, $exists, $elemMatch).
RECURSIVE documentMatches(_, _)
RECURSIVE fieldMatches(_, _)
operatorMatches(values, op, arg) ==
    LET tried == elementsOf(values)
        compared(holds(_, _)) ==
            \E i \in DOMAIN tried :
                /\ tried[i].t = "scalar" /\ arg.t = "scalar"
                /\ Len(tried[i].s) = 1 /\ tried[i].s[1] \in DOMAIN Instant
                /\ Len(arg.s) = 1 /\ arg.s[1] \in DOMAIN Instant
                /\ holds(Instant[tried[i].s[1]], Instant[arg.s[1]])
    IN CASE op = <<"$", "gt">> -> compared(LAMBDA a, b : a > b)
         [] op = <<"$", "gte">> -> compared(LAMBDA a, b : a >= b)
         [] op = <<"$", "lt">> -> compared(LAMBDA a, b : a < b)
         [] op = <<"$", "lte">> -> compared(LAMBDA a, b : a <= b)
         [] op = <<"$", "ne">> -> ~fieldMatches(values, arg)
         [] op = <<"$", "exists">> -> (values # << >>) <=> (arg.s = <<"true">>)
         [] op = ElemMatchKey ->
                \E i \in DOMAIN values :
                    /\ values[i].t = "array"
                    /\ \E j \in DOMAIN values[i].l :
                          /\ values[i].l[j].t = "M"
                          /\ documentMatches(values[i].l[j].d, arg.d)
fieldMatches(values, criteria) ==
    LET tried == elementsOf(values)
    IN CASE criteria.t = "M" ->
                \A op \in DOMAIN criteria.d :
                    operatorMatches(values, op, criteria.d[op])
         [] criteria.t = "null" ->
                values = << >> \/ \E i \in DOMAIN tried : tried[i].t = "null"
         [] criteria.t = "scalar" ->
                \E i \in DOMAIN tried :
                    tried[i].t = "scalar" /\ tried[i].s = criteria.s
         [] criteria.t = "regex" ->
                \E i \in DOMAIN tried :
                    tried[i].t = "scalar" /\ ToLower(tried[i].s) = ToLower(criteria.s)
         [] criteria.t = "startsWith" ->
                \E i \in DOMAIN tried :
                    /\ tried[i].t = "scalar"
                    /\ IsPrefix(ToLower(criteria.s), ToLower(tried[i].s))
documentMatches(resource, query) ==
    \A k \in DOMAIN query :
        IF k = AndKey
        THEN \A i \in DOMAIN query[k].l : documentMatches(resource, query[k].l[i])
        ELSE IF k = OrKey
        THEN \E i \in DOMAIN query[k].l : documentMatches(resource, query[k].l[i])
        ELSE fieldMatches(valuesAt(Doc(resource), fieldNames(k)), query[k])


\* ------------------------------------------ parameters and their predicates
\* A SearchParam: its SearchParamInfo (Name, Prefix, Modifier, Paths) and the
\* value of its type; the fields of the other types are empty.
EQ == "eq"
NE == "ne"
GT == "gt"
LT == "lt"
GE == "ge"
LE == "le"
SA == "sa"
EB == "eb"
DateRange(low, high) == [RangeLowIncl |-> <<low>>, RangeHighExcl |-> <<high>>]
NoValue ==
    [Date |-> DateRange("", ""), String |-> << >>, System |-> << >>,
     Code |-> << >>, AnySystem |-> FALSE, URI |-> << >>,
     Number |-> [RangeLowIncl |-> << >>, RangeHighExcl |-> << >>, Value |-> << >>],
     Reference |-> LocalReference("", "")]
Info(kind, name, prefix, modifier, paths) ==
    [kind |-> kind, Name |-> name, Prefix |-> prefix, Modifier |-> modifier,
     Paths |-> paths]
DateParam(name, prefix, modifier, paths, date) ==
    Info("Date", name, prefix, modifier, paths) @@ [NoValue EXCEPT !.Date = date]

\* orPaths over single-path builders that can panic: the paths are built in
\* order and the first panic unwinds out of the builder.
orPathsOf(built) ==
    LET panicking == {i \in DOMAIN built : built[i].panic # Nil}
    IN IF panicking # {}
       THEN Panics(built[CHOOSE i \in panicking : \A j \in panicking : i <= j].panic)
       ELSE Builds(orPaths([i \in DOMAIN built |-> built[i].doc]))
\* buildBSON of a selector that may have panicked.
buildSelected(path, selected) ==
    IF selected.panic # Nil THEN selected
    ELSE Builds(buildBSON(path, Doc(selected.doc)))

Gt(x) == Doc((<<"$", "gt">> :> Scalar(x)))
Gte(x) == Doc((<<"$", "gte">> :> Scalar(x)))
Lt(x) == Doc((<<"$", "lt">> :> Scalar(x)))
Lte(x) == Doc((<<"$", "lte">> :> Scalar(x)))

dateSelector(d) ==
    LET low == d.Date.RangeLowIncl
        high == d.Date.RangeHighExcl
    IN CASE d.Prefix = EQ ->
                Builds((<<"__from">> :> Gte(low)) @@ (<<"__to">> :> Lte(high)))
         [] d.Prefix = GT -> Builds((<<"__to">> :> Gt(high)))
         [] d.Prefix = LT -> Builds((<<"__from">> :> Lt(low)))
         [] d.Prefix = GE ->
                Builds((OrKey :> List(<<(<<"__to">> :> Gte(high)),
                                        (<<"__from">> :> Gte(low))>>)))
         [] d.Prefix = LE ->
                Builds((OrKey :> List(<<(<<"__from">> :> Lte(low)),
                                        (<<"__to">> :> Lte(high))>>)))
         [] d.Prefix = SA -> Builds((<<"__from">> :> Gt(high)))
         [] d.Prefix = EB -> Builds((<<"__to">> :> Lt(low)))
         [] OTHER -> Panics("UnsupportedSearch")

instantSelector(p) ==
    LET low == p.Date.RangeLowIncl
        high == p.Date.RangeHighExcl
    IN CASE p.Prefix = EQ -> Builds(Gte(low).d @@ Lt(high).d)
         [] p.Prefix = GT -> Builds(Gt(low).d)
         [] p.Prefix = GE -> Builds(Gte(low).d)
         [] p.Prefix = SA -> Builds(Gt(high).d)
         [] p.Prefix \in {LT, EB} -> Builds(Lt(low).d)
         [] p.Prefix = LE -> Builds(Lt(high).d)
         [] OTHER -> Panics("UnsupportedSearch")

\* A mutation first: for EQ the period only has to start within the range of
\* the search value.
periodSelectorStartOnly(d) ==
    IF d.Prefix = EQ
    THEN Builds((<<"start", ".", "__from">> :> Gte(d.Date.RangeLowIncl)))
    ELSE Panics("UnsupportedSearch")

periodSelector(d) ==
    LET low == d.Date.RangeLowIncl
        high == d.Date.RangeHighExcl
        startFrom == <<"start", ".", "__from">>
        endTo == <<"end", ".", "__to">>
        notNull == <<"$", "ne">> :> Null
    IN CASE d.Prefix = EQ -> Builds((startFrom :> Gte(low)) @@ (endTo :> Lte(high)))
         [] d.Prefix = GT ->
                Builds((OrKey :> List(<<(endTo :> Gt(high)),
                                        notNull @@ (<<"end">> :> Null)>>)))
         [] d.Prefix = LT ->
                Builds((OrKey :> List(<<(startFrom :> Lt(low)),
                                        notNull @@ (<<"start">> :> Null)>>)))
         [] d.Prefix = GE ->
                Builds((OrKey :> List(<<(endTo :> Gte(high)),
                                        (startFrom :> Gte(low)),
                                        notNull @@ (<<"end">> :> Null)>>)))
         [] d.Prefix = LE ->
                Builds((OrKey :> List(<<(startFrom :> Lte(low)),
                                        (endTo :> Lte(high)),
                                        notNull @@ (<<"start">> :> Null)>>)))
         [] d.Prefix = SA -> Builds((startFrom :> Gt(high)))
         [] d.Prefix = EB -> Builds((endTo :> Lt(low)))
         [] OTHER -> Panics("UnsupportedSearch")

dateSingle(d, p) ==
    CASE p.Type \in {"date", "dateTime"} -> buildSelected(p.Path, dateSelector(d))
      [] p.Type = "instant" -> buildSelected(p.Path, instantSelector(d))
      [] p.Type = "Period" -> buildSelected(p.Path, periodSelector(d))
      [] p.Type = "Timing" -> buildSelected(p.Path \o <<".", "event">>, dateSelector(d))
      [] OTHER -> Builds(EmptyM)

createDateQueryObject(d) ==
    orPathsOf([i \in DOMAIN d.Paths |-> dateSingle(d, d.Paths[i])])

\* ciToken(s): a case-insensitive match for tokens, unless the searcher keeps
\* token parameters case-sensitive.
ciToken(searcher, x) ==
    IF ~searcher.tokenParametersCaseSensitive /\ searcher.enableCISearches
    THEN Regex(x)
    ELSE Scalar(x)

TokenParam(name, prefix, modifier, paths, system, code, anySystem) ==
    Info("Token", name, prefix, modifier, paths)
        @@ [NoValue EXCEPT !.System = system, !.Code = code, !.AnySystem = anySystem]

Exists(b) == Doc((<<"$", "exists">> :> Scalar(<<b>>)))
\* The entry of a criteria that is set (the interface{} is not nil).
Entry(key, criteria) == IF criteria = None THEN EmptyM ELSE (key :> criteria[1])

\* systemCriteria and codeCriteria of createTokenQueryObject: "system|",
\* "code", "|code" and "system|code".
tokenSystemCriteria(searcher, t) ==
    IF t.Code = << >> THEN Some(ciToken(searcher, t.System))
    ELSE IF t.System = << >>
    THEN IF t.AnySystem THEN None ELSE Some(Exists("false"))
    ELSE Some(ciToken(searcher, t.System))
tokenCodeCriteria(searcher, t) ==
    IF t.Code = << >> THEN None ELSE Some(ciToken(searcher, t.Code))

\* A mutation first: the system and the code are tested apart, each on any
\* coding.
tokenSingleApart(searcher, t, p) ==
    Builds(buildBSON(p.Path,
        Doc(Entry(<<"coding", ".", "system">>, tokenSystemCriteria(searcher, t))
            @@ Entry(<<"coding", ".", "code">>, tokenCodeCriteria(searcher, t)))))

tokenSingle(searcher, t, p) ==
    LET systemCriteria == tokenSystemCriteria(searcher, t)
        codeCriteria == tokenCodeCriteria(searcher, t)
        criteria ==
            CASE p.Type = "Coding" ->
                    Entry(<<"system">>, systemCriteria) @@ Entry(<<"code">>, codeCriteria)
              [] p.Type = "CodeableConcept" ->
                    IF systemCriteria # None /\ codeCriteria # None
                    THEN (<<"coding">> :>
                            Doc((ElemMatchKey :>
                                   Doc((<<"system">> :> systemCriteria[1])
                                       @@ (<<"code">> :> codeCriteria[1])))))
                    ELSE Entry(<<"coding", ".", "system">>, systemCriteria)
                         @@ Entry(<<"coding", ".", "code">>, codeCriteria)
              [] p.Type = "Identifier" ->
                    Entry(<<"system">>, systemCriteria) @@ Entry(<<"value">>, codeCriteria)
              [] p.Type = "ContactPoint" ->
                    (<<"value">> :> ci(searcher.enableCISearches, t.Code))
                    @@ (IF ~t.AnySystem
                        THEN (<<"use">> :> ciToken(searcher, t.System))
                        ELSE EmptyM)
              [] OTHER -> EmptyM
    IN CASE p.Type = "boolean" ->
                IF t.Code \in {<<"true">>, <<"false">>}
                THEN Builds(buildBSON(p.Path, Scalar(t.Code)))
                ELSE Panics("InvalidSearch")
         [] p.Type = "string" ->
                Builds(buildBSON(p.Path, ci(searcher.enableCISearches, t.Code)))
         [] p.Type = "code" -> Builds(buildBSON(p.Path, ciToken(searcher, t.Code)))
         [] p.Type = "id" -> Builds(buildBSON(p.Path, Scalar(t.Code)))
         [] OTHER -> Builds(buildBSON(p.Path, Doc(criteria)))

createTokenQueryObject(searcher, t) ==
    orPathsOf([i \in DOMAIN t.Paths |-> tokenSingle(searcher, t, t.Paths[i])])

\* cisw(s): a case-insensitive starts-with when the searcher enables
\* case-insensitive searches, the string itself otherwise.
cisw(enableCISearches, x) == IF enableCISearches THEN StartsWith(x) ELSE Scalar(x)

StringParam(name, prefix, modifier, paths, string) ==
    Info("String", name, prefix, modifier, paths) @@ [NoValue EXCEPT !.String = string]

\* The disjunction over the text fields of a HumanName or an Address.
anyField(fields, criteria) ==
    (OrKey :> List([i \in DOMAIN fields |-> (<<fields[i]>> :> criteria)]))
HumanNameFields == <<"text", "family", "given">>
AddressFields == <<"text", "line", "city", "state", "postalCode", "country">>

stringSingle(searcher, s, p) ==
    CASE p.Type = "HumanName" ->
            buildBSON(p.Path, Doc(anyField(HumanNameFields,
                                           cisw(searcher.enableCISearches, s.String))))
      [] p.Type = "Address" ->
            buildBSON(p.Path, Doc(anyField(AddressFields,
                                           cisw(searcher.enableCISearches, s.String))))
      [] OTHER ->
            IF s.Name = "_id"
            THEN buildBSON(p.Path, Scalar(s.String))
            ELSE buildBSON(p.Path, ci(searcher.enableCISearches, s.String))

createStringQueryObject(searcher, s) ==
    Builds(orPaths([i \in DOMAIN s.Paths |-> stringSingle(searcher, s, s.Paths[i])]))

NumberParam(name, prefix, modifier, paths, number) ==
    Info("Number", name, prefix, modifier, paths) @@ [NoValue EXCEPT !.Number = number]
QuantityParam(name, prefix, modifier, paths, number, system, code) ==
    Info("Quantity", name, prefix, modifier, paths)
        @@ [NoValue EXCEPT !.Number = number, !.System = system, !.Code = code]
URIParam(name, prefix, modifier, paths, uri) ==
    Info("URI", name, prefix, modifier, paths) @@ [NoValue EXCEPT !.URI = uri]
CompositeSearchParam(name, prefix, modifier, paths) ==
    Info("Composite", name, prefix, modifier, paths) @@ NoValue
ReferenceSearchParam(name, prefix, modifier, paths, reference) ==
    Info("Reference", name, prefix, modifier, paths)
        @@ [NoValue EXCEPT !.Reference = reference]

createCompositeQueryObject(c) == Panics("UnsupportedSearch")

numberSingle(n, p) ==
    LET l == n.Number.RangeLowIncl
        h == n.Number.RangeHighExcl
        exact == n.Number.Value
    IN IF p.Type = "decimal" THEN Panics("UnsupportedSearch")
       ELSE CASE n.Prefix = EQ -> Builds(buildBSON(p.Path, Doc(Gte(l).d @@ Lt(h).d)))
              [] n.Prefix = NE ->
                     Builds(buildBSON(p.Path, Doc((OrKey :> List(<<Lt(l).d, Gte(h).d>>)))))
              [] n.Prefix = GT -> Builds(buildBSON(p.Path, Gt(exact)))
              [] n.Prefix = LT -> Builds(buildBSON(p.Path, Lt(exact)))
              [] n.Prefix = GE -> Builds(buildBSON(p.Path, Gte(l)))
              [] n.Prefix = LE -> Builds(buildBSON(p.Path, Lte(h)))
              [] OTHER -> Panics("UnsupportedSearch")

createNumberQueryObject(n) ==
    orPathsOf([i \in DOMAIN n.Paths |-> numberSingle(n, n.Paths[i])])

quantitySingle(searcher, q, p) ==
    LET l == q.Number.RangeLowIncl
        h == q.Number.RangeHighExcl
        exact == q.Number.Value
        from == <<"value", ".", "__from">>
        to == <<"value", ".", "__to">>
        criteria ==
            CASE q.Prefix = EQ -> Builds((from :> Gte(l)) @@ (to :> Lte(h)))
              [] q.Prefix = LT -> Builds((from :> Lt(exact)))
              [] q.Prefix = GT -> Builds((to :> Gt(exact)))
              [] q.Prefix = GE ->
                     Builds((OrKey :> List(<<(to :> Gte(h)), (from :> Gte(l))>>)))
              [] q.Prefix = LE ->
                     Builds((OrKey :> List(<<(from :> Lte(l)), (to :> Lte(h))>>)))
              [] OTHER -> Panics("UnsupportedSearch")
    IN IF criteria.panic # Nil THEN criteria
       ELSE IF q.System = << >> THEN Panics("UnsupportedSearch")
       ELSE Builds(buildBSON(p.Path,
                Doc((<<"code">> :> ciToken(searcher, q.Code))
                    @@ (<<"system">> :> ciToken(searcher, q.System))
                    @@ criteria.doc)))

createQuantityQueryObject(searcher, q) ==
    orPathsOf([i \in DOMAIN q.Paths |-> quantitySingle(searcher, q, q.Paths[i])])

createURIQueryObject(u) ==
    Builds(orPaths([i \in DOMAIN u.Paths |-> buildBSON(u.Paths[i].Path, Scalar(u.URI))]))

\* The resource types the SearchParameterDictionary has an entry for.
ResourceTypes == {"Patient", "Observation", "Encounter"}

\* panicOnUnsupportedFeatures: the panic it raises, or Nil.
panicOnUnsupportedFeatures(p) ==
    IF p.Prefix # "" /\ p.Prefix # EQ /\ p.kind \notin {"Date", "Number", "Quantity"}
    THEN "UnsupportedSearch"
    ELSE IF p.Modifier # "" /\ (p.kind # "Reference" \/ p.Modifier \notin ResourceTypes)
    THEN "UnsupportedSearch"
    ELSE Nil

\* One turn of the loop of createParamObjects: the predicate of the parameter,
\* or the panic that unwinds out of the loop.
createParamObject(searcher, p) ==
    IF panicOnUnsupportedFeatures(p) # Nil
    THEN Panics(panicOnUnsupportedFeatures(p))
    ELSE CASE p.kind = "Composite" -> createCompositeQueryObject(p)
           [] p.kind = "Date" -> createDateQueryObject(p)
           [] p.kind = "Number" -> createNumberQueryObject(p)
           [] p.kind = "Quantity" -> createQuantityQueryObject(searcher, p)
           [] p.kind = "Reference" ->
                  createReferenceQueryObject(searcher.enableCISearches, p)
           [] p.kind = "Token" -> createTokenQueryObject(searcher, p)
           [] p.kind = "String" -> createStringQueryObject(searcher, p)
           [] p.kind = "URI" -> createURIQueryObject(p)

\* The stored encounters: a period as the indexer stores it, each end a date
\* with its range; an ongoing period has no end.
DateValue(from, to) ==
    Doc((<<"__from">> :> Scalar(<<from>>)) @@ (<<"__to">> :> Scalar(<<to>>)))
Period(start, end) == Doc((<<"start">> :> start) @@ (<<"end">> :> end))
Ongoing(start) == Doc((<<"start">> :> start))
Encounter(period) == (<<"period">> :> period)
Jan1 == DateValue("2020-01-01", "2020-01-02")
Jan5 == DateValue("2020-01-05", "2020-01-06")
Dec31 == DateValue("2019-12-31", "2020-01-01")
NewYear21 == DateValue("2021-01-01", "2021-01-02")
Encounters ==
    {Encounter(Period(Jan1, Jan5)), Encounter(Period(Dec31, Jan5)),
     Encounter(Period(Jan5, NewYear21)), Encounter(Ongoing(Jan1)),
     Encounter(Period(NewYear21, NewYear21))}

Prefixes == {EQ, NE, GT, LT, GE, LE, SA, EB}
Year2020 == DateRange("2020-01-01", "2021-01-01")
Day5 == DateRange("2020-01-05", "2020-01-06")
DatePaths ==
    {SearchParamPath(<<"period">>, "Period"),
     SearchParamPath(<<"date">>, "dateTime"),
     SearchParamPath(<<"issued">>, "instant"),
     SearchParamPath(<<"[", "]", "participant", ".", "period">>, "Period"),
     SearchParamPath(<<"valueRange">>, "Range")}
DateParams ==
    {DateParam("date", prefix, "", paths, date) :
        prefix \in Prefixes,
        paths \in SeqsUpTo(DatePaths, MaxPaths) \ {<< >>},
        date \in {Year2020, Day5}}

\* The stored observations: a CodeableConcept with up to MaxCodings codings,
\* each with a code and, or not, a system.
Coding(system, code) ==
    Doc((IF system = << >> THEN EmptyM ELSE (<<"system">> :> Scalar(system)))
        @@ (<<"code">> :> Scalar(code)))
Codings ==
    {Coding(system, code) :
        system \in {<< >>, <<"s">>, <<"S">>, <<"t">>}, code \in {<<"a">>, <<"A">>, <<"b">>}}
CodeableConcept(codings) == Doc((<<"coding">> :> Array(codings)))
Observations ==
    {(<<"code">> :> CodeableConcept(codings)) : codings \in SeqsUpTo(Codings, MaxCodings)}

TokenPaths ==
    {SearchParamPath(<<"code">>, "CodeableConcept"),
     SearchParamPath(<<"[", "]", "category">>, "CodeableConcept"),
     SearchParamPath(<<"[", "]", "identifier">>, "Identifier"),
     SearchParamPath(<<"[", "]", "telecom">>, "ContactPoint"),
     SearchParamPath(<<"class">>, "Coding"),
     SearchParamPath(<<"active">>, "boolean"),
     SearchParamPath(<<"status">>, "code"),
     SearchParamPath(<<"valueRange">>, "Range")}
TokenParams ==
    {TokenParam("code", prefix, "", paths, token[1], token[2], token[3]) :
        prefix \in {"", EQ, NE},
        paths \in SeqsUpTo(TokenPaths, MaxPaths) \ {<< >>},
        token \in {<<<<"s">>, <<"a">>, FALSE>>, <<<< >>, <<"a">>, FALSE>>,
                   <<<< >>, <<"a">>, TRUE>>, <<<<"s">>, << >>, FALSE>>,
                   <<<< >>, <<"true">>, TRUE>>}}

\* The stored patients: one text, as the family name, a given name, the city
\* of an address, the language or the id.
Texts == {<<"a", "b">>, <<"A", "B", "a">>, <<"a">>, <<"b", "a", "b">>}
Patients ==
    UNION {{(<<"name">> :> Array(<<Doc((<<"family">> :> Scalar(x)))>>)),
            (<<"name">> :> Array(<<Doc((<<"family">> :> Scalar(<<"b">>))
                                       @@ (<<"given">> :> Array(<<Scalar(<<"b">>), Scalar(x)>>)))>>)),
            (<<"address">> :> Array(<<Doc((<<"city">> :> Scalar(x)))>>)),
            (<<"language">> :> Scalar(x)),
            (<<"_id">> :> Scalar(x))} : x \in Texts}

StringPaths ==
    {SearchParamPath(<<"[", "]", "name">>, "HumanName"),
     SearchParamPath(<<"[", "]", "address">>, "Address"),
     SearchParamPath(<<"language">>, "string"),
     SearchParamPath(<<"_id">>, "string")}
StringParams ==
    {StringParam(name, prefix, "", paths, string) :
        name \in {"name", "_id"},
        prefix \in {"", EQ, NE},
        paths \in SeqsUpTo(StringPaths, MaxPaths) \ {<< >>},
        string \in {<<"a", "b">>, <<"A">>}}

One == [RangeLowIncl |-> <<"0.5">>, RangeHighExcl |-> <<"1.5">>, Value |-> <<"1">>]
NumberParams ==
    {NumberParam("length", prefix, "", paths, One) :
        prefix \in Prefixes,
        paths \in SeqsUpTo({SearchParamPath(<<"length">>, "integer"),
                            SearchParamPath(<<"probability">>, "decimal")}, MaxPaths) \ {<< >>}}
QuantityParams ==
    {QuantityParam("value-quantity", prefix, "", paths, One, system, <<"mg">>) :
        prefix \in Prefixes,
        paths \in SeqsUpTo({SearchParamPath(<<"valueQuantity">>, "Quantity"),
                            SearchParamPath(<<"[", "]", "component", ".", "valueQuantity">>,
                                            "Quantity")}, MaxPaths) \ {<< >>},
        system \in {<< >>, <<"ucum">>}}
URIParams ==
    {URIParam("url", prefix, modifier, <<SearchParamPath(<<"url">>, "uri")>>, <<"u">>) :
        prefix \in {"", EQ, GT}, modifier \in {"", "below"}}
CompositeParams ==
    {CompositeSearchParam("code-value-quantity", prefix, "", <<SearchParamPath(<<"code">>, "CodeableConcept")>>) :
        prefix \in {"", EQ}}
ReferenceParams ==
    {ReferenceSearchParam("subject", prefix, modifier, paths, reference) :
        prefix \in {"", EQ, NE},
        modifier \in {"", "Patient", "missing"},
        paths \in SeqsUpTo(ReferencePaths, MaxPaths) \ {<< >>},
        reference \in {LocalReference("Patient", "1"),
                       ExternalReference("http://acme.org/fhir/Patient/1")}}

SearchParams ==
    CompositeParams \cup DateParams \cup NumberParams \cup QuantityParams
        \cup ReferenceParams \cup StringParams \cup TokenParams \cup URIParams

ParamsInit ==
    /\ paramSearcher \in [enableCISearches : BOOLEAN,
                          tokenParametersCaseSensitive : BOOLEAN]
    /\ searchParam \in SearchParams
    /\ paramObject = None
    /\ OutsideParamsIdle

ParamsCreateParamObjects ==
    /\ paramObject = None
    /\ paramObject' = Some(createParamObject(paramSearcher, searchParam))
    /\ UNCHANGED <<paramSearcher, searchParam, outsideParams>>

ParamsNext == ParamsCreateParamObjects

SpecParams == ParamsInit /\ [][ParamsNext]_vars


\* ------------------------------------------ chained search: the stages
\* The Path of a rewritten SearchParamPath as the builders read it: the
\* "_lookupJ." prefixes in front of the FHIR path.
RECURSIVE lookupPrefix(_)
lookupPrefix(lookups) ==
    IF lookups = << >> THEN << >>
    ELSE <<"_lookup", <<"0", "1", "2", "3">>[Head(lookups) + 1], ".">>
             \o lookupPrefix(Tail(lookups))
withLookups(p) ==
    [p EXCEPT !.Paths = [i \in DOMAIN p.Paths |->
        [lookups |-> << >>,
         Path |-> lookupPrefix(p.Paths[i].lookups) \o p.Paths[i].Path,
         Type |-> p.Paths[i].Type]]]

\* A mutation first: the paths are prefixed without being duplicated, each
\* with the lookup of its own index.
prependLookupKeyToSearchPathsOnly(searchParams, numReferencePaths) ==
    [i \in DOMAIN searchParams |->
        [searchParams[i] EXCEPT !.Paths =
            prependLookupKey(<<@>>, [Paths |-> 1], numReferencePaths).arrays[1]]]

\* prependLookupKeyToSearchPaths: matchParams holds the SearchParams it was
\* given (the slice is copied, the parameters are not), and setInfo gives each
\* of them the rewritten clone of its info.
prependLookupKeyToSearchPaths(searchParams, numReferencePaths) ==
    [i \in DOMAIN searchParams |->
        [searchParams[i] EXCEPT !.Paths =
            LET r == rewriteInfo(<<@>>, [Paths |-> 1], numReferencePaths)
            IN r.arrays[r.info.Paths]]]

\* createQueryObjectFromParams of the rewritten parameters: the panic of the
\* first parameter that panics, or the predicates merged in order.
firstPanicOrMerged(built) ==
    LET panicking == {i \in DOMAIN built : built[i].panic # Nil}
    IN IF panicking # {}
       THEN Panics(built[CHOOSE i \in panicking : \A j \in panicking : i <= j].panic)
       ELSE Builds(mergeInOrder(EmptyM, [i \in DOMAIN built |-> built[i].doc]))
matchOf(searcher, matchableParams) ==
    firstPanicOrMerged([i \in DOMAIN matchableParams |->
                           createParamObject(searcher, withLookups(matchableParams[i]))])

\* The stages: a $lookup for each reference path, then one $match.
NoLookup == [from |-> "", localField |-> << >>, foreignField |-> << >>, as |-> 0]
lookupStage(lookup) == [op |-> "$lookup", lookup |-> lookup, query |-> EmptyM]
matchStage(query) == [op |-> "$match", lookup |-> NoLookup, query |-> query]
stagesOf(lookups, match) ==
    [panic |-> match.panic,
     stages |-> IF match.panic # Nil THEN << >>
                ELSE [i \in 1..(Len(lookups) + 1) |->
                         IF i <= Len(lookups) THEN lookupStage(lookups[i])
                         ELSE matchStage(match.doc)]]
chainedSearchPipelineStages(searcher, r, matchableParams) ==
    stagesOf(chainedLookups(r), matchOf(searcher, matchableParams))
reverseChainedSearchPipelineStages(searcher, r, matchableParams) ==
    stagesOf(reverseChainedLookups(r), matchOf(searcher, matchableParams))

PlainSearcher == [enableCISearches |-> FALSE, tokenParametersCaseSensitive |-> FALSE]
\* The parameters of the sub-query: string parameters for "a", on the path
\* x, on the path []y or on both.
SubParams ==
    {StringParam("family", "", "", paths, <<"a">>) :
        paths \in {<<SearchParamPath(<<"x">>, "string")>>,
                   <<SearchParamPath(<<"[", "]", "y">>, "string")>>,
                   <<SearchParamPath(<<"x">>, "string"),
                     SearchParamPath(<<"[", "]", "y">>, "string")>>}}
ChainedReferencePaths ==
    {SearchParamPath(<<"subject">>, "Reference"),
     SearchParamPath(<<"[", "]", "performer">>, "Reference")}

ChainedInit ==
    /\ chainedRef \in
          {ReferenceParam("subject", paths, reference) :
              paths \in SeqsUpTo(ChainedReferencePaths, MaxReferencePaths) \ {<< >>},
              reference \in
                  {ChainedQueryReference("Patient", q) :
                      q \in SeqsUpTo(SubParams, MaxSubParams) \ {<< >>}}
                  \cup {ReverseChainedQueryReference("Observation", q) :
                      q \in SeqsUpTo(SubParams, MaxSubParams) \ {<< >>}}}
    /\ chainedSubParams = chainedRef.Reference.Query
    /\ chainedStages = << >>
    /\ OutsideChainedIdle

\* createChainedSearchPipelineStages(searchParam): Params() hands out the
\* sub-query's parameters, which prependLookupKeyToSearchPaths rewrites.
ChainedCreateStages ==
    /\ isChained(chainedRef)
    /\ Len(chainedStages) < MaxCompilations
    /\ LET matchableParams ==
               prependLookupKeyToSearchPaths(chainedSubParams, Len(chainedRef.Paths))
       IN /\ chainedSubParams' = matchableParams
          /\ chainedStages' =
                Append(chainedStages,
                       chainedSearchPipelineStages(PlainSearcher, chainedRef, matchableParams))
    /\ UNCHANGED <<chainedRef, outsideChained>>

\* createReverseChainedSearchPipelineStages(searchParam)
ChainedCreateReverseStages ==
    /\ isReverseChained(chainedRef)
    /\ Len(chainedStages) < MaxCompilations
    /\ LET matchableParams ==
               prependLookupKeyToSearchPaths(chainedSubParams, Len(chainedRef.Paths))
       IN /\ chainedSubParams' = matchableParams
          /\ chainedStages' =
                Append(chainedStages,
                       reverseChainedSearchPipelineStages(PlainSearcher, chainedRef,
                                                          matchableParams))
    /\ UNCHANGED <<chainedRef, outsideChained>>

ChainedNext == ChainedCreateStages \/ ChainedCreateReverseStages

SpecChained == ChainedInit /\ [][ChainedNext]_vars


\* ------------------------------------------------ sort keys: the parallel ones
\* The sort keys of a search: the first path of each parameter, under the array
\* "a" (with or without an indexer), below a field of it, or outside arrays.
SortKeys ==
    {SortOption(<<"[", "]", "a", ".", "x">>, FALSE),
     SortOption(<<"[", "]", "a", ".", "x">>, TRUE),
     SortOption(<<"[", "1", "]", "a", ".", "y">>, FALSE),
     SortOption(<<"[", "]", "a", ".", "x", ".", "z">>, FALSE),
     SortOption(<<"b">>, FALSE)}

SortsInit ==
    /\ sortKeys \in [Sort : SeqsUpTo(SortKeys, MaxSortKeys), Offset : {0}, Count : {1}]
    /\ keptKeys = None
    /\ OutsideSortsIdle

SortsRemoveParallel ==
    /\ keptKeys = None
    /\ keptKeys' = Some(removeParallelArraySorts(sortKeys).Sort)
    /\ UNCHANGED <<sortKeys, outsideSorts>>

SortsNext == SortsRemoveParallel

SpecSorts == SortsInit /\ [][SortsNext]_vars


\* ------------------------------------------------ includes: the join stages
\* strings.Title on a parameter name, fmt.Sprintf("Path%d", n), and the
\* collection of a resource type.
Title(name) ==
    IF name = << >> THEN name
    ELSE <<CASE name[1] = "s" -> "S" [] name[1] = "p" -> "P" [] OTHER -> name[1]>>
         \o Tail(name)
PathSuffix(n) == <<"P", "a", "t", "h", <<"0", "1", "2", "3", "4">>[n + 1]>>
PluralizeLowerResourceName(type) == ToLower(type) \o <<"s">>

IncludeLookup(from, localField, foreignField, as) ==
    [from |-> from, localField |-> localField, foreignField |-> foreignField, as |-> as]

ReferenceId == <<".", "reference__id">>

\* The $lookup stages of one _include: one for each Reference path and each
\* target other than "Any", in that order.
includeLookupsOf(incl) ==
    LET paths == incl.Parameter.Paths
        targets == incl.Parameter.Targets
        lookup(p, i) ==
            IncludeLookup(
                PluralizeLowerResourceName(targets[i]),
                removeArrayMarkers(paths[p].Path) \o ReferenceId,
                <<"_id">>,
                <<"_included">> \o targets[i] \o <<"ResourcesReferencedBy">>
                    \o Title(incl.Parameter.Name)
                    \o (IF Len(paths) > 1 THEN PathSuffix(i) ELSE << >>))
        ofPath(p) ==
            IF paths[p].Type # "Reference" THEN << >>
            ELSE Flatten([i \in 1..Len(targets) |->
                             IF targets[i] = <<"A", "n", "y">> THEN << >>
                             ELSE <<lookup(p, i)>>])
    IN Flatten([p \in 1..Len(paths) |-> ofPath(p)])

\* The $lookup stages of one _revinclude on a search of a resource type: none
\* when the parameter does not target the type, one for each Reference path
\* otherwise.
revIncludeLookupsOf(resource, incl) ==
    LET paths == incl.Parameter.Paths
        targets == incl.Parameter.Targets
        targetsSearchResource ==
            \E i \in 1..Len(targets) :
                targets[i] = resource \/ targets[i] = <<"A", "n", "y">>
        lookup(p) ==
            IncludeLookup(
                PluralizeLowerResourceName(incl.Parameter.Resource),
                <<"_id">>,
                removeArrayMarkers(paths[p].Path) \o ReferenceId,
                <<"_revIncluded">> \o incl.Parameter.Resource
                    \o <<"ResourcesReferencing">> \o Title(incl.Parameter.Name)
                    \o (IF Len(paths) > 1 THEN PathSuffix(p) ELSE << >>))
    IN IF ~targetsSearchResource THEN << >>
       ELSE Flatten([p \in 1..Len(paths) |->
                        IF paths[p].Type # "Reference" THEN << >> ELSE <<lookup(p)>>])

\* convertOptionsToPipelineStages, the stages after the $limit.
includeStagesOf(resource, o) ==
    Flatten([k \in 1..Len(o.Include) |-> includeLookupsOf(o.Include[k])])
    \o Flatten([k \in 1..Len(o.RevInclude) |-> revIncludeLookupsOf(resource, o.RevInclude[k])])

\* The server's $lookup stages on one document: each stores its join under its
\* result field, in place of what the field held.
RECURSIVE runLookups(_, _)
runLookups(stages, doc) ==
    IF stages = << >> THEN doc
    ELSE runLookups(Tail(stages),
                    [f \in DOMAIN doc \cup {Head(stages).as} |->
                        IF f = Head(stages).as
                        THEN [from |-> Head(stages).from,
                              localField |-> Head(stages).localField,
                              foreignField |-> Head(stages).foreignField]
                        ELSE doc[f]])

\* Reference parameters of Condition and Observation: one to MaxIncludePaths
\* paths, Reference or not, and one to MaxTargets target types.
PatientType == <<"P", "a", "t", "i", "e", "n", "t">>
GroupType == <<"G", "r", "o", "u", "p">>
AnyType == <<"A", "n", "y">>
ConditionType == <<"C", "o", "n", "d", "i", "t", "i", "o", "n">>
IncludePaths ==
    {[Type |-> "Reference", Path |-> <<"s", "u", "b">>],
     [Type |-> "Reference", Path |-> <<"[", "]", "p", "e", "r", ".", "a">>],
     [Type |-> "string", Path |-> <<"s", "u", "b">>]}
IncludeParameters ==
    [Name : {<<"s", "u", "b">>},
     Resource : {ConditionType},
     Paths : SeqsUpTo(IncludePaths, MaxIncludePaths) \ {<< >>},
     Targets : SeqsUpTo({PatientType, GroupType, AnyType}, MaxTargets) \ {<< >>}]

IncludesInit ==
    /\ \E p \in IncludeParameters :
          includeOptions \in {[Include |-> <<[Parameter |-> p]>>, RevInclude |-> << >>],
                              [Include |-> << >>, RevInclude |-> <<[Parameter |-> p]>>]}
    /\ includeStages = None
    /\ OutsideIncludesIdle

IncludesConvert ==
    /\ includeStages = None
    /\ includeStages' = Some(includeStagesOf(PatientType, includeOptions))
    /\ UNCHANGED <<includeOptions, outsideIncludes>>

IncludesNext == IncludesConvert

SpecIncludes == IncludesInit /\ [][IncludesNext]_vars


\* ------------------------------------------------ the Update and Delete handlers
\* bson.IsObjectIdHex: 24 characters, all of them hexadecimal digits.
\* bson.ObjectIdHex(s).Hex() writes the digits in lower case; the Hex() of the
\* zero ObjectId is the empty string.
HexDigits == Digits \cup {"a", "b", "c", "d", "e", "f", "A", "B", "C", "D", "E", "F"}
IsObjectIdHex(s) == Len(s) = 24 /\ \A i \in 1..Len(s) : s[i] \in HexDigits
ObjectIdHex(s) == ToLower(s)
ZeroObjectId == << >>
Hex(id) == id

\* http.Error(rw, text, status): one more write on the response; the client
\* sees the status of the first.
HttpError(written, text, status) == Append(written, [status |-> status, text |-> text])

\* c.Update(selector, doc) and c.Remove(selector) of the driver, on the
\* documents of one collection: the document with the selector's _id is
\* replaced or removed, ErrNotFound when there is none, an error of the
\* connection when it fails.
CollectionUpdate(docs, id, doc, fails) ==
    IF fails THEN [docs |-> docs, err |-> "connection"]
    ELSE IF id \notin DOMAIN docs THEN [docs |-> docs, err |-> "not found"]
    ELSE [docs |-> [docs EXCEPT ![id] = doc], err |-> ""]
CollectionRemove(docs, id, fails) ==
    IF fails THEN [docs |-> docs, err |-> "connection"]
    ELSE IF id \notin DOMAIN docs THEN [docs |-> docs, err |-> "not found"]
    ELSE [docs |-> [i \in DOMAIN docs \ {id} |-> docs[i]], err |-> ""]

\* decoder.Decode(resource): the resource of a well-formed body, an error and
\* the empty resource otherwise.
Decode(body) ==
    IF body = "malformed" THEN [resource |-> "empty", err |-> "malformed"]
    ELSE [resource |-> body, err |-> ""]

\* <Resource>UpdateHandler, whole: the id of the route, the body, the Update on
\* the collection, the context. No error ends the handler.
UpdateHandler(name, fails) ==
    LET idString == handlerRequest.id
        valid == IsObjectIdHex(idString)
        id == IF valid THEN ObjectIdHex(idString) ELSE ZeroObjectId
        w1 == IF valid THEN << >> ELSE HttpError(<< >>, "Invalid id", 400)
        decoded == Decode(handlerRequest.body)
        w2 == IF decoded.err # "" THEN HttpError(w1, decoded.err, 500) ELSE w1
        updated == CollectionUpdate(database[name], Hex(id), decoded.resource, fails)
        w3 == IF updated.err # "" THEN HttpError(w2, updated.err, 500) ELSE w2
    IN /\ response = None
       /\ database' = [database EXCEPT ![name] = updated.docs]
       /\ dbCalls' = Append(dbCalls, [op |-> "Update", c |-> name, id |-> Hex(id)])
       /\ response' = Some(w3)
       /\ requestContext' = Some([Resource |-> name, Action |-> "update"])
       /\ UNCHANGED <<handlerRequest, outsideHandlers>>

\* <Resource>DeleteHandler, whole: the id of the route, the Remove on the
\* collection, the context. Only the error of the Remove ends the handler.
DeleteHandler(name, fails) ==
    LET idString == handlerRequest.id
        valid == IsObjectIdHex(idString)
        id == IF valid THEN ObjectIdHex(idString) ELSE ZeroObjectId
        w1 == IF valid THEN << >> ELSE HttpError(<< >>, "Invalid id", 400)
        removed == CollectionRemove(database[name], Hex(id), fails)
        w2 == IF removed.err # "" THEN HttpError(w1, removed.err, 500) ELSE w1
    IN /\ response = None
       /\ database' = [database EXCEPT ![name] = removed.docs]
       /\ dbCalls' = Append(dbCalls, [op |-> "Remove", c |-> name, id |-> Hex(id)])
       /\ response' = Some(w2)
       /\ requestContext' = IF removed.err # "" THEN None
                            ELSE Some([Resource |-> name, Action |-> "delete"])
       /\ UNCHANGED <<handlerRequest, outsideHandlers>>

EncounterUpdateHandler == \E fails \in BOOLEAN : UpdateHandler("encounters", fails)
EncounterDeleteHandler == \E fails \in BOOLEAN : DeleteHandler("encounters", fails)
BinaryUpdateHandler == \E fails \in BOOLEAN : UpdateHandler("binaries", fails)
BinaryDeleteHandler == \E fails \in BOOLEAN : DeleteHandler("binaries", fails)

\* The ids a route can carry: the id of a document the Create handler stored
\* (the Hex() of a new ObjectId), the same in upper case, the id of no
\* document, and three strings that are no ObjectId.
StoredId == [i \in 1..24 |-> "a"]
RouteIds ==
    {StoredId,
     [i \in 1..24 |-> "A"],
     [i \in 1..24 |-> "b"],
     << >>,
     [i \in 1..23 |-> "a"],
     [i \in 1..24 |-> IF i = 24 THEN "g" ELSE "a"]}

HandlersInit ==
    /\ database \in [{"encounters", "binaries"} -> {<< >>, StoredId :> "old"}]
    /\ handlerRequest \in [id : RouteIds, body : {"new", "malformed"}]
    /\ response = None
    /\ dbCalls = << >>
    /\ requestContext = None
    /\ OutsideHandlersIdle

HandlersNext ==
    \/ EncounterUpdateHandler
    \/ EncounterDeleteHandler
    \/ BinaryUpdateHandler
    \/ BinaryDeleteHandler

SpecHandlers == HandlersInit /\ [][HandlersNext]_vars


\* ----------------------------------------------------------------- claims
Done(c) == c.pc = "done"
Succeeded(c) == Done(c) /\ c.ret.err = Nil
Has(c, op) == \E i \in 1..Len(c.ops) : c.ops[i] = op
CountOps == {"CountDocuments", "AggregateCount"}
Counted(c) == \E op \in CountOps : Has(c, op)
Queried(c) == Has(c, "Find") \/ Has(c, "Aggregate")
Summary == request.options.Summary
CacheEntries == FindOne(countcache, QueryHash(request))

\* C1: Search reads countcache (FindOne) only when readonly and
\* countTotalResults are both true and writes it (InsertOne) only when both are
\* true; no step of Search removes or changes an entry countcache already holds.
C1_TouchesCache(c) == Has(c, "FindOne") \/ Has(c, "InsertOne")
C1_CacheOnlyReadOnlyWithCounts ==
    [][ /\ (\A c \in Started :
                C1_TouchesCache(c) => (m.readonly /\ m.countTotalResults))'
        /\ Len(countcache') >= Len(countcache)
        /\ \A i \in 1..Len(countcache) : countcache'[i] = countcache[i] ]_vars

C1_Witness ==
    \E c \in Started :
        /\ Done(c) /\ Has(c, "FindOne") /\ Has(c, "InsertOne")
        /\ c.inserted
        /\ preloaded # << >> /\ Len(countcache) > Len(preloaded)

C3_TwoSuccessive(c1, c2) ==
    /\ c1 # c2 /\ Succeeded(c1) /\ Succeeded(c2)
    /\ BagCardinality(calls) = 2
    /\ c1.after = 0 /\ c2.after = 1
    /\ CacheEnabled(m) /\ preloaded = << >>

C3_OneEntryOfFirstCall(c1, c2) ==
    /\ Len(CacheEntries) = 1
    /\ c1.inserted /\ ~c2.inserted
    /\ CacheEntries[1].Count = c1.ret.total

\* C3 as stated: after two successive successful Search calls with the same
\* resource and raw query (any options) on an initially empty countcache under
\* readonly+counts, countcache holds exactly one entry for the fingerprint,
\* inserted by the first call, with the total the first call computed.
C3_TwoCallsOneEntry ==
    \A c1, c2 \in Started :
        C3_TwoSuccessive(c1, c2) => C3_OneEntryOfFirstCall(c1, c2)

\* C3 amended: the same, for options other than _summary=count and when the
\* driver accepted the first call's InsertOne (a _summary=count search returns
\* before the insert; a failed insert is dropped silently).  In every case
\* countcache holds at most one entry for the fingerprint.
C3_TwoCallsOneEntryWhenInsertAccepted ==
    \A c1, c2 \in Started :
        C3_TwoSuccessive(c1, c2) =>
            /\ Len(CacheEntries) <= 1
            /\ (Summary # "count" /\ c1.insertOutcome = "ok")
                  => C3_OneEntryOfFirstCall(c1, c2)
            /\ Summary = "count" => Len(CacheEntries) = 0

C3_Witness ==
    \E c1, c2 \in Started :
        /\ C3_TwoSuccessive(c1, c2)
        /\ c1.insertOutcome = "ok" /\ c2.cacheHit
        /\ c1.ret.total > 0 /\ c2.ret.total = c1.ret.total

\* C4: under readonly+counts, however the Search calls for one fingerprint
\* interleave, countcache holds at most one entry for it, the entry's count is
\* the number of documents the query selects, and every call that returns
\* without error returns that number; a call whose insert was attempted returns
\* without error whether the insert was stored or rejected.
C4_ConcurrentInsertIdempotent ==
    CacheEnabled(m) =>
        /\ Len(CacheEntries) <= 1
        /\ \A i \in 1..Len(CacheEntries) :
              CacheEntries[i].Count = ExpectedTotal(request)
        /\ \A c \in Started :
              /\ Succeeded(c) => c.ret.total = ExpectedTotal(request)
              /\ (Done(c) /\ c.insertOutcome # "none") => Succeeded(c)

C4_Witness ==
    \E c1, c2 \in Started :
        /\ c1 # c2 /\ Succeeded(c1) /\ Succeeded(c2)
        /\ c1.insertOutcome = "ok" /\ c1.inserted
        /\ c2.insertOutcome = "ok" /\ ~c2.inserted
        /\ c1.ret.total > 0

C6_CountPathTaken(c) ==
    LET b == convertToBSON(request)
    IN IF ~usesPipeline(b) \/ Len(Get(b.Pipeline)) = 1
       THEN Has(c, "CountDocuments") /\ ~Has(c, "AggregateCount")
       ELSE /\ Has(c, "AggregateCount") /\ ~Has(c, "CountDocuments")
            /\ c.countCursor.docs =
                  RunPipeline(Get(b.Pipeline) \o <<GroupSumStage>>, Collection)
            /\ \A i \in 1..Len(searchPipeline(b, request.options)) :
                  searchPipeline(b, request.options)[i] # GroupSumStage

C6_SummaryCountAgrees ==
    \A c \in Started :
        (Succeeded(c) /\ m.countTotalResults /\ Summary = "count") =>
            /\ c.ret.total = ExpectedTotal(request)
            /\ Counted(c) => C6_CountPathTaken(c)
            /\ ~Counted(c) => (c.cacheHit /\ c.total = 0)

C6_Witness ==
    \E c \in Started :
        /\ Succeeded(c) /\ m.countTotalResults /\ Summary = "count"
        /\ Has(c, "AggregateCount")
        /\ c.ret.total > 0 /\ c.ret.total < NDocs

\* C7: within one Search the driver operations come in the order cache lookup,
\* count operation, reads of the count cursor, find/aggregate, reads of the
\* result cursor, cache insert, each of them but the cursor reads at most once;
\* the cache insert directly follows the read that found the result cursor
\* exhausted without error.
Rank(op) ==
    CASE op = "FindOne" -> 1
      [] op \in CountOps -> 2
      [] op = "CountNext" -> 3
      [] op \in {"Find", "Aggregate"} -> 4
      [] op \in {"Next", "NextEOF", "NextErr"} -> 5
      [] op = "InsertOne" -> 6

C7_OperationOrder ==
    \A c \in Started :
        LET ops == c.ops
        IN /\ \A i \in 1..(Len(ops) - 1) :
                /\ Rank(ops[i]) <= Rank(ops[i + 1])
                /\ Rank(ops[i + 1]) # 5 => Rank(ops[i]) < Rank(ops[i + 1])
           /\ \A j \in 1..Len(ops) :
                ops[j] = "InsertOne" =>
                    /\ j > 1 /\ ops[j - 1] = "NextEOF"
                    /\ c.cursor.state = "closed"
                    /\ c.cursor.pos = Len(c.cursor.docs)

C7_Witness ==
    \E c \in Started :
        /\ Done(c) /\ Has(c, "FindOne") /\ Has(c, "AggregateCount")
        /\ Has(c, "CountNext") /\ Has(c, "Aggregate") /\ Has(c, "Next")
        /\ Has(c, "NextEOF") /\ Has(c, "InsertOne")

\* C8: a Search in which the count operation, the find/aggregate operation or a
\* cursor read or decode failed (a driver error or a cancelled request) has
\* returned an error and made no write to countcache.
C8_FailureReturnsErrorWithoutCacheWrite ==
    \A c \in Started :
        c.failed =>
            /\ Done(c) /\ c.ret.err # Nil
            /\ ~Has(c, "InsertOne") /\ ~c.inserted

C8_Witness ==
    \E c \in Started :
        /\ c.failed /\ CacheEnabled(m) /\ c.doCount
        /\ c.cursor.pos >= 1 /\ Has(c, "NextErr")
        /\ \A i \in 1..Len(countcache) : countcache[i].Id # c.queryHash

\* C9 as stated: every cursor Search opened (the result cursor and the cursor of
\* the count aggregation) is closed by the time Search returns.
C9_CursorsClosedOnReturn ==
    \A c \in Started :
        Done(c) => /\ c.cursor.state # "open"
                   /\ c.countCursor.state # "open"

\* C10: whenever Search returns an error, the returned resources are nil and
\* the returned total is 0, whatever had been collected or counted before.
C10_ErrorReturnsNothing ==
    \A c \in Started :
        (Done(c) /\ c.ret.err # Nil) =>
            /\ c.ret.resources = << >>
            /\ c.ret.total = 0

C10_Witness ==
    \E c \in Started :
        /\ Done(c) /\ c.ret.err = "Search cursor error"
        /\ c.resources # << >> /\ c.computedTotal > 0

\* C11 as stated: when compiling the query signals an error, Search returns it
\* through its error value with nil resources; no panic unwinds out of Search.
C11_CompileErrorReturned ==
    \A c \in Started :
        /\ c.pc # "panic"
        /\ (convertToBSONPanic(c.query) # Nil /\ c.pc \notin {"idle", "lookup"})
              => (Done(c) /\ c.ret.err # Nil /\ c.ret.resources = << >>)

\* C11 amended: when compiling the query signals an error, the panic unwinds
\* out of Search carrying that error and Search returns nothing; Search has by
\* then issued no count, find or aggregate operation and no cache insert (only
\* the cache lookup, when the cache is enabled).  A panic leaves Search for no
\* other reason.
C11_CompileErrorUnwinds ==
    \A c \in Started :
        /\ (convertToBSONPanic(c.query) # Nil /\ c.pc \notin {"idle", "lookup"})
              => /\ c.pc = "panic" /\ c.panic = convertToBSONPanic(c.query)
                 /\ c.ret = NoRet
                 /\ \A i \in 1..Len(c.ops) : c.ops[i] = "FindOne"
        /\ c.pc = "panic" => c.panic = convertToBSONPanic(c.query)

C11_Witness ==
    \E c \in Started :
        /\ c.pc = "panic" /\ c.panic = "UnsupportedSearch"
        /\ Has(c, "FindOne") /\ countcache = << >>

\* C12 as stated: when the driver reports that a count, find or aggregate
\* operation was interrupted (error code 11601), Search reports an OpInterrupted
\* error, not the generic wrapped error.
C12_InterruptedReportsOpInterrupted ==
    \A c \in Started :
        c.interrupted => (c.pc \in {"done", "panic"}
                          /\ "OpInterrupted" \in {c.ret.err, c.panic})

\* C13 as stated: after Close on a searcher built by NewMongoSearcherForUri the
\* session it started is ended and the client it connected is disconnected;
\* after Close on a searcher built by NewMongoSearcher the injected session and
\* its client are untouched.
C13_CloseEndsWhatTheSearcherOwns ==
    \A i \in 1..Len(searchers) :
        searchers[i].closed =>
            IF searchers[i].ctor = "NewMongoSearcherForUri"
            THEN /\ sessions[searchers[i].started]
                 /\ ~clients[searchers[i].connected]
            ELSE /\ ~sessions[1]
                 /\ clients[1]

\* C14: a Search with _summary=count issues no find and no search aggregation
\* and reads no result cursor; when it returns without error it returns no
\* resources and the counted total, and it returns without error whenever no
\* driver operation of it failed.
C14_SummaryCountCollectsNothing ==
    \A c \in Started :
        c.query.options.Summary = "count" =>
            /\ ~Queried(c)
            /\ ~Has(c, "Next") /\ ~Has(c, "NextEOF") /\ ~Has(c, "NextErr")
            /\ c.cursor = NoCursor /\ c.resources = << >>
            /\ Succeeded(c) => /\ c.ret.resources = << >>
                                /\ c.ret.total = ExpectedTotal(c.query)
            /\ (Done(c) /\ ~c.failed) => c.ret.err = Nil

C14_Witness ==
    \E c \in Started :
        /\ Succeeded(c) /\ c.query.options.Summary = "count"
        /\ Has(c, "CountDocuments") /\ c.ret.total > 0
        /\ c.ret.resources = << >> /\ ~c.usesPipeline

\* C17: convertToBSON leaves exactly one of Query and Pipeline non-nil, also
\* for an empty parameter list; usesPipeline() is true exactly when a parameter
\* is chained or reverse-chained or the options carry includes; and a Search
\* that got as far as the dispatch went to aggregate (Aggregate, or the count
\* of aggregate) when usesPipeline() is true and to find (Find, CountDocuments
\* on the query document) otherwise.
C17_ChainedOrIncludes(query) ==
    \/ \E i \in 1..Len(query.params) : query.params[i].kind \in {"chained", "reverse"}
    \/ query.options.Include > 0

\* The call got past the compilation of line 180 to the dispatch.
C17_Dispatched(c) ==
    \/ c.pc \in {"count", "countNext", "query", "collect", "insert"}
    \/ c.pc = "done" /\ \E i \in 1..Len(c.ops) : c.ops[i] # "FindOne"

C17_ExactlyOneOfQueryAndPipeline ==
    LET q == request
    IN  convertToBSONPanic(q) = Nil =>
            LET b == convertToBSON(q)
            IN /\ (b.Query = None) # (b.Pipeline = None)
               /\ usesPipeline(b) <=> (b.Pipeline # None)
               /\ usesPipeline(b) <=> C17_ChainedOrIncludes(q)
               /\ \A c \in Started :
                     C17_Dispatched(c) =>
                        /\ c.usesPipeline <=> C17_ChainedOrIncludes(q)
                        /\ (Has(c, "Aggregate") \/ Has(c, "AggregateCount"))
                               => C17_ChainedOrIncludes(q)
                        /\ Has(c, "Find") => ~C17_ChainedOrIncludes(q)
                        /\ (Succeeded(c) /\ q.options.Summary # "count")
                               => (Has(c, "Aggregate") <=> C17_ChainedOrIncludes(q))
                        /\ (Succeeded(c) /\ q.options.Summary # "count")
                               => (Has(c, "Find") <=> ~C17_ChainedOrIncludes(q))

C17_Witness ==
    \E c \in Started :
        /\ Succeeded(c) /\ request.params = << >> /\ request.options.Include = 0
        /\ Has(c, "Find") /\ ~c.usesPipeline
        /\ convertToBSON(request).Query = Some({})

\* C15: while and after the paths of a chained, reverse-chained or Or-of-chained
\* reference's sub-parameters are rewritten (one or several reference paths),
\* every SearchParamInfo of the SearchParameterDictionary has the paths it had
\* before (name, modifier and targets are never assigned): each rewritten
\* parameter got paths of its own, prefixed and duplicated N-fold.
C15_Rewritten(p, n) ==
    LET before == DictionaryArrays[SearchParameterDictionary[p.info.Name].Paths]
        after == arrays[p.info.Paths]
    IN /\ p.info.Paths > Len(DictionaryArrays)
       /\ Len(after) = n * Len(before)
       /\ \A k \in 1..Len(after) :
             /\ after[k].lookups = <<(k - 1) % n>>
             /\ after[k].Path = before[((k - 1) \div n) + 1].Path
       /\ [p.info EXCEPT !.Paths = 0] =
             [SearchParameterDictionary[p.info.Name] EXCEPT !.Paths = 0]

C15_DictionaryUnchanged ==
    \/ arrays = << >>
    \/ /\ \A name \in DOMAIN SearchParameterDictionary :
             arrays[SearchParameterDictionary[name].Paths] =
                 DictionaryArrays[SearchParameterDictionary[name].Paths]
       /\ \A i \in 1..Len(matchParams) :
             i < ip => C15_Rewritten(matchParams[i], chain.numReferencePaths)

C15_Witness ==
    /\ ip > Len(matchParams) /\ Len(matchParams) = 2
    /\ chain.isOr /\ chain.numReferencePaths = 1
    /\ matchParams[1].info.Name = "address" /\ matchParams[2].info.Name = "address"
    /\ arrays[matchParams[1].info.Paths][2].lookups = <<0>>
    /\ arrays[2][2].lookups = << >>

\* C18: merging any sequence of per-parameter predicate documents into an
\* initially empty result keeps every key/value pair of every input: the pair
\* is a top-level entry of the result or a {key: value} branch of the result's
\* top-level $and list (the branches of an incoming $and are branches of it);
\* a top-level entry is the first one merged under its key, never a later one,
\* so the result matches a document iff every merged predicate matches it.
C18_InAnd(branch) ==
    /\ AndKey \in DOMAIN result
    /\ \E i \in 1..Len(result[AndKey].l) : result[AndKey].l[i] = branch
C18_Preserved(k, v) ==
    IF k = AndKey
    THEN \A i \in 1..Len(v.l) : C18_InAnd(v.l[i])
    ELSE (k \in DOMAIN result /\ result[k] = v) \/ C18_InAnd(k :> v)
C18_FirstWith(k) ==
    CHOOSE i \in 1..merged :
        /\ k \in DOMAIN paramObjects[i]
        /\ \A j \in 1..(i - 1) : k \notin DOMAIN paramObjects[j]
C18_MergeKeepsEveryPair ==
    /\ \A i \in 1..merged : \A k \in DOMAIN paramObjects[i] :
          C18_Preserved(k, paramObjects[i][k])
    /\ \A k \in DOMAIN result \ {AndKey} :
          result[k] = paramObjects[C18_FirstWith(k)][k]
    /\ \A data \in DataDocs :
          bsonMatches(data, result)
              <=> \A i \in 1..merged : bsonMatches(data, paramObjects[i])
\* Two parameters constrain the same key with different values, a third
\* predicate is merged after them, and the result matches no document.
C18_Witness ==
    /\ merged = 3
    /\ paramObjects[1] = Male
    /\ paramObjects[2] = Female
    /\ result[<<"gender">>] = Scalar("male")
    /\ C18_InAnd(Female)
    /\ \A data \in DataDocs : ~bsonMatches(data, result)

\* C19: for every list of k >= 1 paths, the predicate orPaths returns matches
\* a document iff at least one single-path predicate matches it; the branches
\* of a single-path predicate that is a lone $or are branches of the outer
\* disjunction; with one path whose predicate is not a lone $or, the result is
\* that predicate itself.
C19_OuterBranches(doc) == IF isLoneOr(doc) THEN doc[OrKey].l ELSE <<doc>>
C19_OrPathsIsTheDisjunction ==
    orReturn # None =>
        LET ret == orReturn[1]
            outer == C19_OuterBranches(ret)
        IN /\ \A data \in DataDocs :
                 bsonMatches(data, ret)
                     <=> \E i \in 1..Len(singles) : bsonMatches(data, singles[i])
           /\ \A i \in 1..Len(singles) :
                 isLoneOr(singles[i]) =>
                     \A j \in 1..Len(singles[i][OrKey].l) :
                         \E b \in 1..Len(outer) : outer[b] = singles[i][OrKey].l[j]
           /\ (Len(singles) = 1 /\ ~isLoneOr(singles[1])) => ret = singles[1]
\* Two paths, the first a lone $or of two branches and the second a plain
\* predicate: orPaths returned a $or of three branches.
C19_Witness ==
    /\ orReturn # None
    /\ Len(singles) = 2
    /\ isLoneOr(singles[1]) /\ Len(singles[1][OrKey].l) = 2
    /\ ~isLoneOr(singles[2])
    /\ isLoneOr(orReturn[1]) /\ Len(orReturn[1][OrKey].l) = 3

\* C16 (as stated): for a ReferenceParam whose reference is a ChainedQuery or
\* ReverseChainedQuery, whatever the types of its paths, the single-document
\* builders emit no predicate: the parameter went to the pipeline's lookup
\* stages or an InternalError was signalled.
C16_IsChain == isChained(referenceParam) \/ isReverseChained(referenceParam)
C16_Compiled == referenceBuilt # None /\ C16_IsChain
C16_AllInlined ==
    \A i \in 1..Len(referenceParam.Paths) : referenceParam.Paths[i].Type = "Resource"
C20_FindAndAggregateAgree ==
    (findResult # None /\ aggregateResult # None) => findResult = aggregateResult

\* C21: for every search path with "[]" and "[N]" markers (consecutive
\* indexers such as "[1][2]a" and an indexer followed by "." or by the end of
\* the path included), converting the Mongo field once more gives the same
\* Mongo field: convertSearchPathToMongoField is idempotent.
C21_ConvertIdempotent ==
    mongoFieldAgain # None => mongoFieldAgain = mongoField

\* C22 as stated: for the encounter whose period starts on 2020-01-01 and
\* ends with end.__to = 2020-01-06, the predicate of a date parameter on the
\* Period path with prefix eq and value 2020 matches no document, and with
\* prefix ge it matches the document.
C22_TheEncounter == Encounter(Period(Jan1, Jan5))
C22_OnPeriod(prefix) ==
    /\ paramObject # None
    /\ searchParam.kind = "Date" /\ searchParam.Prefix = prefix
    /\ searchParam.Date = Year2020
    /\ searchParam.Paths = <<SearchParamPath(<<"period">>, "Period")>>
C22_EqMissesGeMatches ==
    /\ C22_OnPeriod(EQ) =>
          /\ paramObject[1].panic = Nil
          /\ ~documentMatches(C22_TheEncounter, paramObject[1].doc)
    /\ C22_OnPeriod(GE) =>
          /\ paramObject[1].panic = Nil
          /\ documentMatches(C22_TheEncounter, paramObject[1].doc)
\* C22 amended: the period lies within 2020, so the predicate with prefix eq
\* matches the encounter (1 hit), as the predicate with prefix ge does; among
\* the stored encounters eq matches exactly those whose period starts at or
\* after 2020-01-01 and ends at or before 2021-01-01.
C22_Contained(e) ==
    /\ <<"end">> \in DOMAIN e[<<"period">>].d
    /\ Instant[e[<<"period">>].d[<<"start">>].d[<<"__from">>].s[1]] >= Instant["2020-01-01"]
    /\ Instant[e[<<"period">>].d[<<"end">>].d[<<"__to">>].s[1]] <= Instant["2021-01-01"]
C22_EqAndGeMatch ==
    /\ C22_OnPeriod(EQ) =>
          /\ paramObject[1].panic = Nil
          /\ documentMatches(C22_TheEncounter, paramObject[1].doc)
          /\ \A e \in Encounters :
                documentMatches(e, paramObject[1].doc) <=> C22_Contained(e)
    /\ C22_OnPeriod(GE) =>
          /\ paramObject[1].panic = Nil
          /\ documentMatches(C22_TheEncounter, paramObject[1].doc)
\* The eq predicate of the scenario has been compiled.
C22_Witness ==
    /\ C22_OnPeriod(EQ)
    /\ paramObject[1].doc =
          (<<"period", ".", "start", ".", "__from">> :> Gte(<<"2020-01-01">>))
          @@ (<<"period", ".", "end", ".", "__to">> :> Lte(<<"2021-01-01">>))

\* C23: for a token parameter on a CodeableConcept path, "system|code" matches
\* exactly the observations that have one coding with both that system and
\* that code, "|code" exactly those that have a coding with that code and no
\* system field, "code" exactly those that have a coding with that code
\* under any system, and "system|" exactly those that have a coding with that
\* system (systems and codes compared as the searcher compares tokens).
C23_Compiled ==
    /\ paramObject # None
    /\ searchParam.kind = "Token" /\ searchParam.Prefix \in {"", EQ}
    /\ searchParam.Paths = <<SearchParamPath(<<"code">>, "CodeableConcept")>>
    /\ searchParam.Code # <<"true">>
C23_Same(stored, searched) ==
    IF ~paramSearcher.tokenParametersCaseSensitive /\ paramSearcher.enableCISearches
    THEN ToLower(stored) = ToLower(searched)
    ELSE stored = searched
C23_HasCoding(o, holds(_)) ==
    \E i \in DOMAIN o[<<"code">>].d[<<"coding">>].l :
        holds(o[<<"code">>].d[<<"coding">>].l[i].d)
C23_System(c) == <<"system">> \in DOMAIN c /\ C23_Same(c[<<"system">>].s, searchParam.System)
C23_Code(c) == C23_Same(c[<<"code">>].s, searchParam.Code)
C23_Expected(o) ==
    IF searchParam.Code = << >> THEN C23_HasCoding(o, C23_System)
    ELSE IF searchParam.System # << >>
    THEN C23_HasCoding(o, LAMBDA c : C23_System(c) /\ C23_Code(c))
    ELSE IF searchParam.AnySystem THEN C23_HasCoding(o, C23_Code)
    ELSE C23_HasCoding(o, LAMBDA c : <<"system">> \notin DOMAIN c /\ C23_Code(c))
C23_TokenOnCodeableConcept ==
    C23_Compiled =>
        /\ paramObject[1].panic = Nil
        /\ \A o \in Observations :
              documentMatches(o, paramObject[1].doc) <=> C23_Expected(o)
\* "system|code" has been compiled to an element match on coding: it matches
\* the observation with that coding and not the one whose two codings carry
\* the system and the code apart.
C23_Witness ==
    /\ C23_Compiled
    /\ paramSearcher.tokenParametersCaseSensitive
    /\ searchParam.System = <<"s">> /\ searchParam.Code = <<"a">>
    /\ paramObject[1].doc =
          (<<"code", ".", "coding">> :>
              Doc((ElemMatchKey :> Doc((<<"system">> :> Scalar(<<"s">>))
                                       @@ (<<"code">> :> Scalar(<<"a">>))))))
    /\ documentMatches((<<"code">> :> CodeableConcept(<<Coding(<<"s">>, <<"a">>)>>)),
                       paramObject[1].doc)
    /\ ~documentMatches(
           (<<"code">> :> CodeableConcept(<<Coding(<<"s">>, <<"b">>), Coding(<<"t">>, <<"a">>)>>)),
           paramObject[1].doc)

\* C24: for a StringParam other than _id on a path of any target type (a plain
\* string, a HumanName, an Address), with enableCISearches on, the predicate
\* matches a stored resource iff one of the target's texts begins with the
\* search string ignoring case (a longer stored text included).
C24_Compiled ==
    /\ paramObject # None
    /\ searchParam.kind = "String" /\ searchParam.Prefix \in {"", EQ}
    /\ searchParam.Name # "_id"
    /\ Len(searchParam.Paths) = 1
    /\ paramSearcher.enableCISearches
C24_TextsOf(r, p) ==
    LET at(key) == elementsOf(valuesAt(Doc(r), fieldNames(key)))
        path == convertSearchPathToMongoField(p.Path)
        fields == CASE p.Type = "HumanName" -> HumanNameFields
                    [] p.Type = "Address" -> AddressFields
                    [] OTHER -> << >>
    IN IF fields = << >> THEN at(path)
       ELSE Concat([i \in DOMAIN fields |-> at(path \o <<".", fields[i]>>)])
C24_Begins(r, p) ==
    \E i \in DOMAIN C24_TextsOf(r, p) :
        /\ C24_TextsOf(r, p)[i].t = "scalar"
        /\ IsPrefix(ToLower(searchParam.String), ToLower(C24_TextsOf(r, p)[i].s))
C24_StringStartsWith ==
    C24_Compiled =>
        /\ paramObject[1].panic = Nil
        /\ \A r \in Patients :
              documentMatches(r, paramObject[1].doc) <=> C24_Begins(r, searchParam.Paths[1])

\* C25: every parameter whose type, prefix, modifier or target type is not
\* implemented makes the compilation panic with UnsupportedSearch (501) and
\* emits no predicate: composite parameters, decimal number targets, sa and
\* eb on numbers, ne, sa and eb on quantities, a quantity without a system,
\* a prefix other than eq on string, token, reference and URI parameters, a
\* modifier other than a known resource type on a reference, and a date or a
\* token parameter on a path whose target type has no builder case.
C25_DateTypes == {"date", "dateTime", "instant", "Period", "Timing"}
C25_TokenTypes ==
    {"Coding", "CodeableConcept", "Identifier", "ContactPoint", "boolean",
     "string", "code", "id"}
C25_SomePath(p, types) == \E i \in DOMAIN p.Paths : p.Paths[i].Type \in types
C25_NotImplemented(p) ==
    \/ p.kind = "Composite"
    \/ p.kind = "Number" /\ (C25_SomePath(p, {"decimal"}) \/ p.Prefix \in {SA, EB})
    \/ p.kind = "Quantity" /\ (p.Prefix \in {NE, SA, EB} \/ p.System = << >>)
    \/ p.kind \in {"String", "Token", "Reference", "URI"} /\ p.Prefix \notin {"", EQ}
    \/ p.kind = "Reference" /\ p.Modifier # "" /\ p.Modifier \notin ResourceTypes
    \/ p.kind = "Date" /\ \E i \in DOMAIN p.Paths : p.Paths[i].Type \notin C25_DateTypes
    \/ p.kind = "Token" /\ \E i \in DOMAIN p.Paths : p.Paths[i].Type \notin C25_TokenTypes
\* A token whose content is invalid for a boolean path is refused first, as an
\* invalid search (400).
C25_InvalidContent(p) ==
    p.kind = "Token" /\ C25_SomePath(p, {"boolean"}) /\ p.Code \notin {<<"true">>, <<"false">>}
C25_UnsupportedSignalled ==
    (paramObject # None /\ C25_NotImplemented(searchParam) /\ ~C25_InvalidContent(searchParam))
        => (paramObject[1].panic = "UnsupportedSearch" /\ paramObject[1].doc = EmptyM)

\* C26: the compilation leaves the SearchParam objects of the chained
\* sub-query as they were parsed, so that compiling the same objects twice
\* emits the same stages, every sub-parameter path carrying "_lookupJ."
\* exactly once.
C26_CompilationIsPure ==
    /\ chainedRef # << >> => chainedSubParams = chainedRef.Reference.Query
    /\ Len(chainedStages) = 2 => chainedStages[2] = chainedStages[1]

\* C27: for a chained or reverse-chained reference with n >= 1 reference
\* paths, the first compilation emits exactly n $lookup stages with the result
\* fields _lookup0 .. _lookup(n-1) and then exactly one $match; for each
\* sub-parameter with the paths P the $match tests exactly the fields
\* _lookupJ.p (0 <= J < n, p in P), under one disjunction: a joined document
\* is matched iff for every sub-parameter one of these fields has the value.
C27_Digit(j) == <<"0", "1", "2", "3">>[j + 1]
RECURSIVE C27_Tested(_)
C27_Tested(doc) ==
    UNION {IF k \in {AndKey, OrKey}
           THEN UNION {C27_Tested(doc[k].l[i]) : i \in DOMAIN doc[k].l}
           ELSE {k} : k \in DOMAIN doc}
C27_JoinedDocs(n) ==
    {[k \in {<<"_lookup", C27_Digit(j)>> : j \in 0..(n - 1)} |->
         Array(<<Doc((<<"x">> :> Scalar(f[k[2]]["x"]))
                     @@ (<<"y">> :> Array(<<Scalar(f[k[2]]["y"])>>)))>>)] :
        f \in [{C27_Digit(j) : j \in 0..(n - 1)} -> [{"x", "y"} -> {<<"a">>, <<"z">>}]]}
C27_Has(d, field, value) ==
    LET tried == elementsOf(valuesAt(Doc(d), fieldNames(field)))
    IN \E i \in DOMAIN tried : tried[i].t = "scalar" /\ tried[i].s = value
C27_Expected(d, n) ==
    \A k \in DOMAIN chainedRef.Reference.Query :
        LET p == chainedRef.Reference.Query[k]
        IN \E j \in 0..(n - 1), i \in DOMAIN p.Paths :
              C27_Has(d, <<"_lookup", C27_Digit(j), ".">>
                             \o convertSearchPathToMongoField(p.Paths[i].Path), p.String)
C27_LookupsThenOneMatch ==
    Len(chainedStages) >= 1 =>
        LET n == Len(chainedRef.Paths)
            stages == chainedStages[1].stages
        IN /\ chainedStages[1].panic = Nil
           /\ Len(stages) = n + 1
           /\ \A i \in 1..n : stages[i].op = "$lookup" /\ stages[i].lookup.as = i - 1
           /\ stages[n + 1].op = "$match"
           /\ C27_Tested(stages[n + 1].query) =
                 UNION {{<<"_lookup", C27_Digit(j), ".">>
                             \o convertSearchPathToMongoField(
                                    chainedRef.Reference.Query[k].Paths[i].Path) :
                           j \in 0..(n - 1),
                           i \in DOMAIN chainedRef.Reference.Query[k].Paths} :
                        k \in DOMAIN chainedRef.Reference.Query}
           /\ \A d \in C27_JoinedDocs(n) :
                 documentMatches(d, stages[n + 1].query) <=> C27_Expected(d, n)
\* Two reference paths and one sub-parameter with two paths: two $lookup
\* stages and a $match over the four combinations.
C27_Witness ==
    /\ Len(chainedStages) >= 1
    /\ Len(chainedRef.Paths) = 2
    /\ Len(chainedStages[1].stages) = 3
    /\ chainedStages[1].stages[3].query =
          (OrKey :> List(<<(<<"_lookup", "0", ".", "x">> :> Scalar(<<"a">>)),
                           (<<"_lookup", "1", ".", "x">> :> Scalar(<<"a">>)),
                           (<<"_lookup", "0", ".", "y">> :> Scalar(<<"a">>)),
                           (<<"_lookup", "1", ".", "y">> :> Scalar(<<"a">>))>>))

\* The keys of the list at the positions of a set, in the order of the list.
RECURSIVE C28_KeysAt(_, _, _)
C28_KeysAt(sorts, positions, i) ==
    IF i > Len(sorts) THEN << >>
    ELSE (IF i \in positions THEN <<sorts[i]>> ELSE << >>)
         \o C28_KeysAt(sorts, positions, i + 1)

C28_Parallel(sorts, i, j) == isParallelArrayPath(sorts[i].Path, sorts[j].Path)

\* C28: after removeParallelArraySorts, a sort key is kept iff the first path
\* of its parameter shares no parallel-array prefix with the first path of any
\* earlier sort key of the original list (whether or not that earlier key was
\* itself dropped); the kept keys retain their original relative order.
C28_KeptIffNoEarlierParallel ==
    keptKeys # None =>
        LET sorts == sortKeys.Sort
            kept == {i \in 1..Len(sorts) :
                        \A j \in 1..(i - 1) : ~C28_Parallel(sorts, i, j)}
        IN keptKeys[1] = C28_KeysAt(sorts, kept, 1)

\* C28, amended: a sort key is kept iff its path shares no parallel-array
\* prefix with the path of any earlier KEPT key; a dropped key stands in the
\* way of no later key. The kept keys retain their original relative order.
C28_KeptIffNoEarlierKeptParallel ==
    keptKeys # None =>
        LET sorts == sortKeys.Sort
        IN \E kept \in SUBSET (1..Len(sorts)) :
              /\ \A i \in 1..Len(sorts) :
                    i \in kept <=> \A j \in kept : j < i => ~C28_Parallel(sorts, i, j)
              /\ keptKeys[1] = C28_KeysAt(sorts, kept, 1)

\* A list whose third key is parallel with its dropped second key and with no
\* kept one has been cleaned: the third key is kept.
C28_Witness ==
    /\ keptKeys # None
    /\ Len(sortKeys.Sort) = 3
    /\ C28_Parallel(sortKeys.Sort, 2, 1)
    /\ C28_Parallel(sortKeys.Sort, 3, 2)
    /\ ~C28_Parallel(sortKeys.Sort, 3, 1)
    /\ keptKeys[1] = <<sortKeys.Sort[1], sortKeys.Sort[3]>>

\* C29: for every _include whose parameter has more than one Reference path,
\* the $lookup stages emitted for distinct (path, target) pairs have pairwise
\* distinct result-field names, so the join result of one path never
\* overwrites the join result of another path: after the stages have run, the
\* document holds the join of each of them.
C29_IncludeResultFieldsDistinct ==
    (/\ includeStages # None
     /\ Len(includeOptions.Include) = 1
     /\ Cardinality({p \in 1..Len(includeOptions.Include[1].Parameter.Paths) :
            includeOptions.Include[1].Parameter.Paths[p].Type = "Reference"}) > 1)
    => LET stages == includeStages[1]
           doc == runLookups(stages, << >>)
       IN /\ \A i, j \in 1..Len(stages) :
                (stages[i].localField # stages[j].localField
                    \/ stages[i].from # stages[j].from)
                => stages[i].as # stages[j].as
          /\ \A i \in 1..Len(stages) :
                /\ stages[i].as \in DOMAIN doc
                /\ doc[stages[i].as].localField = stages[i].localField

\* C30: in every resource Update and Delete handler, a request whose id is not
\* a valid ObjectId hex string is answered with status 400 and causes no
\* database update or remove and no further response writes; the handler
\* performs the database mutation only for a valid id.
C30_InvalidIdOnly400 ==
    response # None =>
        /\ ~IsObjectIdHex(handlerRequest.id) =>
              /\ Len(response[1]) = 1
              /\ response[1][1].status = 400
              /\ dbCalls = << >>
        /\ dbCalls # << >> => IsObjectIdHex(handlerRequest.id)

====
